---- MODULE Spec2Model ----
(***************************************************************************)
(* blazedb-service: the persistent concurrent DataStore                    *)
(* (src/src/server/storage.rs), the gateway's authentication path          *)
(* (src/src/bin/proxy.rs) and the registration / verification service      *)
(* (src/src/server/service.rs, src/src/bin/main.rs).                       *)
(***************************************************************************)
EXTENDS Integers, Sequences, FiniteSets, TLC

VARIABLES
    data,       \* DataStore.data: the in-memory HashMap behind the RwLock
    file,       \* the backing JSON file at DataStore.path
    readers,    \* the threads holding DataStore.data's RwLock in shared mode
    th,         \* per thread: the store call it is in, its position and locals
    nops,       \* number of store calls started so far
    last,       \* per key: the value of the last insert that returned Ok, while no
                \* later insert, delete, clear or batch_insert has touched the key
    cache,      \* AppState.user_cache: the LruCache, most recently used first
    req,        \* per connection: the request its handler is serving
    otp_cache,  \* service: OTP_CACHE, e-mail -> OtpRecord
    rate_limit, \* service: OTP_RATE_LIMIT, e-mail -> time of the last code request
    now,        \* service: Utc::now() in seconds
    containers, \* instance ids that have a container
    resp,       \* service: the response to the last request
    docker,     \* the container runtime: its volumes and containers
    call,       \* the container-manager call in progress
    env,        \* the environment variables of the service process
    arg,        \* the input under test: the argument of a function checked on
                \* its own, the paths the gateway's clients ask for
    out         \* the values the function under test has returned

storeVars == <<data, file, readers, th, nops, last>>

gatewayVars == <<cache, req>>

(* what the DataStore does not own *)
serviceVars == <<otp_cache, rate_limit, now, containers, resp>>

(* the container runtime and the functions checked on their own *)
asideVars == <<docker, call, env, arg, out>>

others == <<cache, req, otp_cache, rate_limit, now, containers, resp, asideVars>>

vars == <<data, file, readers, th, nops, last, cache, req,
          otp_cache, rate_limit, now, containers, resp,
          docker, call, env, arg, out>>

----------------------------------------------------------------------------
(* Bounds of the store model *)

MaxOps == 3
NWorkers == 2

(* the two threads of SpecStore; the workers of SpecInserts *)
Threads == {1, 2}
Workers == 1..NWorkers
Keys == {"k1", "k2"}
Vals == {"v1", "v2"}

(* Option<V>: None is the empty tuple, Some(v) the 1-tuple *)
None == <<>>
Some(v) == <<v>>

(* HashMap<K, V> as a function whose domain is the set of present keys *)
EmptyMap == [k \in {} |-> None]

MapInsertNoReplace(m, k, v) ==
    IF k \in DOMAIN m THEN m ELSE [x \in DOMAIN m \cup {k} |-> IF x = k THEN v ELSE m[x]]

MapInsert(m, k, v) ==
    [x \in DOMAIN m \cup {k} |-> IF x = k THEN v ELSE m[x]]

MapGet(m, k) == IF k \in DOMAIN m THEN Some(m[k]) ELSE None

MapRemove(m, k) == [x \in DOMAIN m \ {k} |-> m[x]]

MapLen(m) == Cardinality(DOMAIN m)

(* a loop that keeps the first value of a key *)
RECURSIVE MapExtendKeepingFirst(_, _)
MapExtendKeepingFirst(m, entries) ==
    IF entries = <<>> THEN m
    ELSE MapExtendKeepingFirst(
             MapInsertNoReplace(m, Head(entries)[1], Head(entries)[2]), Tail(entries))

(* for (key, value) in entries { data.insert(key, value) } *)
RECURSIVE MapExtend(_, _)
MapExtend(m, entries) ==
    IF entries = <<>> THEN m
    ELSE MapExtend(MapInsert(m, Head(entries)[1], Head(entries)[2]), Tail(entries))

(* The backing file: absent, truncated / partly written, or a JSON object *)
FileAbsent == [kind |-> "absent", doc |-> {}]
FilePartial == [kind |-> "partial", doc |-> {}]
FileJson(doc) == [kind |-> "json", doc |-> doc]

SerializeButOne(m) ==
    {<<k, m[k]>> : k \in DOMAIN m \ {CHOOSE x \in DOMAIN m \cup {"k1"} : TRUE}}

(* serde_json::to_writer_pretty(&*data): one member per entry of the map *)
Serialize(m) == {<<k, m[k]>> : k \in DOMAIN m}

(* serde_json::from_slice: the map with one entry per member of the object *)
Deserialize(doc) ==
    [k \in {p[1] : p \in doc} |-> (CHOOSE p \in doc : p[1] = k)[2]]

(* DataStore::new(path): load the file when it exists, fail when it does not parse *)
StoreNew(f) ==
    IF f.kind = "absent" THEN [ok |-> TRUE, data |-> EmptyMap]
    ELSE IF f.kind = "json" THEN [ok |-> TRUE, data |-> Deserialize(f.doc)]
    ELSE [ok |-> FALSE, data |-> EmptyMap]

Batches ==
    { <<>>,
      << <<"k1", "v1">>, <<"k2", "v2">> >>,
      << <<"k1", "v1">>, <<"k1", "v2">> >> }

BatchKeys(b) == {b[i][1] : i \in DOMAIN b}

(* a thread between calls; op, key, val, old, ret describe its last call *)
Idle == [pc |-> "idle", op |-> "none", key |-> "k1", val |-> "v1", batch |-> <<>>,
         old |-> None, pre |-> None, ret |-> "none", loaded |-> EmptyMap,
         obs |-> EmptyMap, whole |-> {}, met |-> FALSE]

----------------------------------------------------------------------------
(* RwLock<HashMap>: an exclusive section never blocks nor does I/O, so it is
   one step, enabled when no guard is out; a shared guard may span steps. *)

CanWriteIgnoringReaders == TRUE

CanWrite == readers = {}

(* every thread that holds a shared guard sees the map change *)
Witnessed(newdata) ==
    [u \in DOMAIN th |->
        IF u \in readers THEN [th[u] EXCEPT !.whole = @ \cup {newdata}] ELSE th[u]]

----------------------------------------------------------------------------
(* The exclusive sections: self.data.write(), the change, drop(data).
   A call is entered by a thread that is between calls. *)

CanCall(t) == th[t].pc = "idle" /\ nops < MaxOps

Forget(f, ks) == [k \in Keys |-> IF k \in ks THEN None ELSE f[k]]

Before(k) == IF k \in DOMAIN data THEN <<data[k]>> ELSE <<>>

(* a slip that would change a copy: self.data.read().clone().insert(key, value) *)
insert_into_copy(t) ==
    /\ CanCall(t) /\ CanWrite
    /\ \E k \in Keys, v \in Vals :
        /\ th' = [th EXCEPT
                     ![t] = [Idle EXCEPT !.pc = "save", !.op = "insert", !.key = k,
                                         !.val = v, !.old = MapGet(data, k),
                                         !.pre = Before(k)]]
        /\ last' = Forget(last, {k})
    /\ nops' = nops + 1
    /\ UNCHANGED <<data, file, readers>>
    /\ UNCHANGED others

insert(t) ==
    /\ CanCall(t) /\ CanWrite
    /\ \E k \in Keys, v \in Vals :
        /\ data' = MapInsert(data, k, v)
        /\ th' = [Witnessed(data') EXCEPT
                     ![t] = [Idle EXCEPT !.pc = "save", !.op = "insert", !.key = k,
                                         !.val = v, !.old = MapGet(data, k),
                                         !.pre = Before(k)]]
        /\ last' = Forget(last, {k})
    /\ nops' = nops + 1
    /\ UNCHANGED <<file, readers>>
    /\ UNCHANGED others

insert_mem(t) ==
    /\ CanCall(t) /\ CanWrite
    /\ \E k \in Keys, v \in Vals :
        /\ data' = MapInsert(data, k, v)
        /\ th' = [Witnessed(data') EXCEPT
                     ![t] = [Idle EXCEPT !.op = "insert_mem", !.key = k, !.val = v,
                                         !.old = MapGet(data, k), !.pre = Before(k),
                                         !.ret = "ok"]]
        /\ last' = Forget(last, {k})
    /\ nops' = nops + 1
    /\ UNCHANGED <<file, readers>>
    /\ UNCHANGED others

(* a delete that leaves the file as it is *)
delete_mem(t) ==
    /\ CanCall(t) /\ CanWrite
    /\ \E k \in Keys :
        /\ data' = MapRemove(data, k)
        /\ th' = [Witnessed(data') EXCEPT
                     ![t] = [Idle EXCEPT !.ret = "ok", !.op = "delete", !.key = k,
                                         !.old = MapGet(data, k), !.pre = Before(k)]]
        /\ last' = Forget(last, {k})
    /\ nops' = nops + 1
    /\ UNCHANGED <<file, readers>>
    /\ UNCHANGED others

delete(t) ==
    /\ CanCall(t) /\ CanWrite
    /\ \E k \in Keys :
        LET removed == MapGet(data, k) IN
        /\ data' = MapRemove(data, k)
        /\ th' = [Witnessed(data') EXCEPT
                     ![t] = [Idle EXCEPT
                                !.pc = IF removed # None THEN "save" ELSE "idle",
                                !.ret = IF removed # None THEN "none" ELSE "ok",
                                !.op = "delete", !.key = k, !.old = removed,
                                !.pre = Before(k)]]
        /\ last' = Forget(last, {k})
    /\ nops' = nops + 1
    /\ UNCHANGED <<file, readers>>
    /\ UNCHANGED others

clear(t) ==
    /\ CanCall(t) /\ CanWrite
    /\ data' = EmptyMap
    /\ th' = [Witnessed(data') EXCEPT ![t] = [Idle EXCEPT !.pc = "save", !.op = "clear"]]
    /\ last' = Forget(last, Keys)
    /\ nops' = nops + 1
    /\ UNCHANGED <<file, readers>>
    /\ UNCHANGED others

batch_insert(t) ==
    /\ CanCall(t) /\ CanWrite
    /\ \E b \in Batches :
        /\ data' = MapExtend(data, b)
        /\ th' = [Witnessed(data') EXCEPT
                     ![t] = [Idle EXCEPT !.pc = "save", !.op = "batch_insert",
                                         !.batch = b]]
        /\ last' = Forget(last, BatchKeys(b))
    /\ nops' = nops + 1
    /\ UNCHANGED <<file, readers>>
    /\ UNCHANGED others

----------------------------------------------------------------------------
(* save_to_disk: the shared guard `data` is taken first and lives to the end
   of the function, across the open, the write and the flush *)

save_to_disk(t) ==
    /\ CanCall(t)
    /\ th' = [th EXCEPT ![t] = [Idle EXCEPT !.pc = "save", !.op = "save_to_disk"]]
    /\ nops' = nops + 1
    /\ UNCHANGED <<data, file, readers, last>>
    /\ UNCHANGED others

(* self.data.read(), create_dir_all, OpenOptions::open(truncate): the file is
   emptied, or the open fails and `?` returns the error *)
save_open(t) ==
    /\ th[t].pc = "save"
    /\ \/ /\ file' = FilePartial
          /\ readers' = readers \cup {t}
          /\ th' = [th EXCEPT ![t].pc = "save_write", ![t].whole = {data}]
       \/ /\ th' = [th EXCEPT ![t].pc = "idle", ![t].ret = "err"]
          /\ UNCHANGED <<file, readers>>
    /\ UNCHANGED <<data, nops, last>>
    /\ UNCHANGED others

(* to_writer_pretty(&*data), flush, the guard is dropped, Ok; a durable insert
   that returns Ok records its pair *)
save_write(t) ==
    /\ th[t].pc = "save_write"
    /\ file' = FileJson(Serialize(data))
    /\ readers' = readers \ {t}
    /\ th' = [th EXCEPT ![t].pc = "idle", ![t].ret = "ok", ![t].whole = {}]
    /\ last' = IF th[t].op = "insert"
               THEN [last EXCEPT ![th[t].key] = Some(th[t].val)] ELSE last
    /\ UNCHANGED <<data, nops>>
    /\ UNCHANGED others

----------------------------------------------------------------------------
(* The readers *)

get(t) ==
    /\ CanCall(t)
    /\ \E k \in Keys :
        th' = [th EXCEPT ![t] = [Idle EXCEPT !.op = "get", !.key = k,
                                             !.old = MapGet(data, k), !.ret = "ok"]]
    /\ nops' = nops + 1
    /\ UNCHANGED <<data, file, readers, last>>
    /\ UNCHANGED others

(* snapshot / keys / values / entries: the shared guard is taken and the map
   is copied entry by entry; the guard is dropped after the last entry *)
snapshot(t) ==
    /\ CanCall(t)
    /\ IF data = EmptyMap
       THEN /\ th' = [th EXCEPT ![t] = [Idle EXCEPT !.op = "snapshot", !.ret = "ok",
                                                    !.whole = {data}]]
            /\ UNCHANGED readers
       ELSE /\ th' = [th EXCEPT ![t] = [Idle EXCEPT !.pc = "snap_copy", !.op = "snapshot",
                                                    !.whole = {data}]]
            /\ readers' = readers \cup {t}
    /\ nops' = nops + 1
    /\ UNCHANGED <<data, file, last>>
    /\ UNCHANGED others

snapshot_copy(t) ==
    /\ th[t].pc = "snap_copy"
    /\ IF DOMAIN data \ DOMAIN th[t].obs = {}
       THEN /\ th' = [th EXCEPT ![t].pc = "idle", ![t].ret = "ok"]
            /\ readers' = readers \ {t}
       ELSE \E k \in DOMAIN data \ DOMAIN th[t].obs :
            LET seen == MapInsert(th[t].obs, k, data[k])
                fin == DOMAIN data \ DOMAIN seen = {}
            IN /\ th' = [th EXCEPT ![t].obs = seen,
                                   ![t].pc = IF fin THEN "idle" ELSE "snap_copy",
                                   ![t].ret = IF fin THEN "ok" ELSE "none",
                                   ![t].met = @ \/ \E u \in DOMAIN th : th[u].pc = "swap"]
               /\ readers' = IF fin THEN readers \ {t} ELSE readers
    /\ UNCHANGED <<data, file, nops, last>>
    /\ UNCHANGED others

----------------------------------------------------------------------------
(* reload -> load_from_disk: the file is read and parsed with no guard held,
   then the map is replaced under the exclusive guard *)

(* a reload that empties the map when the file cannot be parsed *)
reload_clearing(t) ==
    /\ CanCall(t)
    /\ th' = [th EXCEPT ![t] =
                 [Idle EXCEPT
                     !.op = "reload",
                     !.pc = IF file.kind = "json" THEN "swap" ELSE "idle",
                     !.ret = IF file.kind = "json" THEN "none"
                             ELSE IF file.kind = "absent" THEN "ok" ELSE "err",
                     !.loaded = IF file.kind = "json" THEN Deserialize(file.doc)
                                ELSE EmptyMap]]
    /\ data' = IF file.kind = "partial" THEN EmptyMap ELSE data
    /\ nops' = nops + 1
    /\ UNCHANGED <<file, readers, last>>
    /\ UNCHANGED others

reload(t) ==
    /\ CanCall(t)
    /\ th' = [th EXCEPT ![t] =
                 [Idle EXCEPT
                     !.op = "reload",
                     !.pc = IF file.kind = "json" THEN "swap" ELSE "idle",
                     !.ret = IF file.kind = "json" THEN "none"
                             ELSE IF file.kind = "absent" THEN "ok" ELSE "err",
                     !.loaded = IF file.kind = "json" THEN Deserialize(file.doc)
                                ELSE EmptyMap]]
    /\ nops' = nops + 1
    /\ UNCHANGED <<data, file, readers, last>>
    /\ UNCHANGED others

(* a reload that parses the file and leaves the map as it is *)
load_and_drop(t) ==
    /\ th[t].pc = "swap"
    /\ CanWrite
    /\ th' = [th EXCEPT ![t].ret = "ok", ![t].pc = "idle"]
    /\ UNCHANGED <<data, file, readers, nops, last>>
    /\ UNCHANGED others

(* *data = loaded_data under the exclusive guard *)
load_swap(t) ==
    /\ th[t].pc = "swap"
    /\ CanWrite
    /\ data' = th[t].loaded
    /\ th' = [Witnessed(data') EXCEPT ![t].ret = "ok", ![t].pc = "idle"]
    /\ UNCHANGED <<file, readers, nops, last>>
    /\ UNCHANGED others

StoreStep(t) ==
    \/ insert(t) \/ insert_mem(t) \/ delete(t) \/ clear(t) \/ batch_insert(t)
    \/ save_to_disk(t) \/ save_open(t) \/ save_write(t)
    \/ get(t) \/ snapshot(t) \/ snapshot_copy(t)
    \/ reload(t) \/ load_swap(t)

(* no gateway runs beside the store under test *)
GatewayUnused ==
    /\ cache = <<>>
    /\ req = <<>>

(* nor a container runtime, nor a function checked on its own *)
AsideUnused ==
    /\ docker = <<>>
    /\ call = <<>>
    /\ env = <<>>
    /\ arg = <<>>
    /\ out = <<>>

(* nor a service *)
ServiceUnused ==
    /\ otp_cache = EmptyMap
    /\ rate_limit = EmptyMap
    /\ now = 0
    /\ containers = {}
    /\ resp = <<>>

(* the backing file a store may be opened on: none yet, or one an earlier
   run of the program wrote *)
InitFiles ==
    { FileAbsent,
      FileJson({}),
      FileJson({<<"k1", "v1">>}),
      FileJson({<<"k1", "v2">>, <<"k2", "v2">>}) }

(* DataStore::new(path) on such a file *)
StoreInit ==
    /\ file \in InitFiles
    /\ data = StoreNew(file).data
    /\ readers = {}
    /\ th = [t \in Threads |-> Idle]
    /\ nops = 0
    /\ last = [k \in Keys |-> None]
    /\ GatewayUnused
    /\ ServiceUnused
    /\ AsideUnused

(* threads of one process calling into one shared store *)
StoreNext == \E t \in Threads : StoreStep(t)

SpecStore == StoreInit /\ [][StoreNext]_vars

(* one caller: a call runs to its return before the next one starts *)
Alone(t) == \A u \in Threads \ {t} : th[u].pc = "idle"

StoreSeqNext == \E t \in Threads : Alone(t) /\ StoreStep(t)

SpecStoreSeq == StoreInit /\ [][StoreSeqNext]_vars


(* threads that call the durable mutations only *)
MutationsNext ==
    \E t \in Threads :
        \/ insert(t) \/ delete(t) \/ clear(t) \/ batch_insert(t)
        \/ save_open(t) \/ save_write(t)

SpecMutations == StoreInit /\ [][MutationsNext]_vars

(* workers of one process inserting into a store opened on a fresh path
   (test_concurrent_access) *)
InsertsInit ==
    /\ file = FileAbsent
    /\ data = EmptyMap
    /\ readers = {}
    /\ th = [t \in Workers |-> Idle]
    /\ nops = 0
    /\ last = [k \in Keys |-> None]
    /\ GatewayUnused
    /\ ServiceUnused
    /\ AsideUnused

InsertsNext ==
    \E t \in Workers :
        \/ insert(t) \/ save_open(t) \/ save_write(t)
        \/ get(t) \/ snapshot(t) \/ snapshot_copy(t)

SpecInserts == InsertsInit /\ [][InsertsNext]_vars

----------------------------------------------------------------------------
(* ports.rs: the host port of an instance.  A string is the sequence of the
   code points of its characters. *)

PORT_BASE == 50000
PORT_SPAN == 10000
U16 == 65536
PORT_CHARS == 8

(* c as u16 *)
as_u16(c) == c % U16

(* a step of the fold that weighs the characters by their place *)
wrapping_mul_add(acc, x) == (acc * 31 + x) % U16

wrapping_add(acc, x) == (acc + x) % U16

(* every character taken *)
take_all(s, n) == s

(* chars().take(n) *)
take(s, n) == SubSeq(s, 1, IF Len(s) < n THEN Len(s) ELSE n)

RECURSIVE fold(_, _)
fold(acc, s) ==
    IF s = <<>> THEN acc
    ELSE fold(wrapping_add(acc, as_u16(Head(s))), Tail(s))

(* the port with the base at 60000 *)
calculate_container_port_high(instance_id) ==
    60000 + (fold(0, take(instance_id, PORT_CHARS)) % PORT_SPAN)

(* the value of the u16 expression, before it is stored in a u16 *)
calculate_container_port(instance_id) ==
    PORT_BASE + (fold(0, take(instance_id, PORT_CHARS)) % PORT_SPAN)

----------------------------------------------------------------------------
(* container.rs: the container manager and the Docker runtime it drives.
   A call runs one runtime request per step; the runtime may become
   unreachable and an operator may stop a container at any moment. *)

(* the instance ids "ab", "ba" and "ac": the first two share a host port *)
Instances == {<<97, 98>>, <<98, 97>>, <<97, 99>>}

(* BLAZEDB_NETWORK: not set, or the name of an internal network *)
NetworkSettings == {None, Some("blazenet")}

container_name(instance_id) == <<"blazedb-">> \o instance_id
config_volume(instance_id) == <<"blazedb_config_">> \o instance_id
sources_volume(instance_id) == <<"blazedb_sources_">> \o instance_id

network_mode == IF env.BLAZEDB_NETWORK = None THEN "bridge" ELSE env.BLAZEDB_NETWORK[1]

(* the name filter of the runtime's list requests keeps every name that
   contains the pattern *)
name_filter(pattern, name) ==
    \E i \in 1..(Len(name) - Len(pattern) + 1) :
        SubSeq(name, i, i + Len(pattern) - 1) = pattern

list_containers(d, name) == {c \in d.containers : name_filter(name, c.name)}

container_exists(d, name) == list_containers(d, name) # {}

list_volumes(d, name) == {v \in d.volumes : name_filter(name, v)}

(* the body create_container is sent *)
ContainerCreateBody(instance_id) ==
    [name |-> container_name(instance_id),
     state |-> "created",
     mounts |-> {[target |-> "/home/blazedb/.config/blaze",
                  source |-> config_volume(instance_id)],
                 [target |-> "/home/blazedb/blaze",
                  source |-> sources_volume(instance_id)]},
     network_mode |-> network_mode,
     port_bindings |-> IF network_mode = "bridge"
                       THEN Some(calculate_container_port(instance_id))
                       ELSE None,
     restart_policy |-> "unless-stopped"]

(* the runtime refuses to start a container whose host port another running
   container has bound *)
port_allocated(d, c) ==
    /\ c.port_bindings # None
    /\ \E o \in d.containers :
        o.name # c.name /\ o.state = "running" /\ o.port_bindings = c.port_bindings

SetState(d, name, s) ==
    [d EXCEPT !.containers =
        {IF c.name = name THEN [c EXCEPT !.state = s] ELSE c : c \in d.containers}]

(* the runtime that answers a start of a running container with an error *)
start_container_once(d, name) ==
    LET found == {c \in d.containers : c.name = name} IN
    IF ~d.reachable \/ found = {} THEN [ok |-> FALSE, docker |-> d]
    ELSE LET c == CHOOSE x \in found : TRUE IN
         IF c.state = "running" \/ port_allocated(d, c)
         THEN [ok |-> FALSE, docker |-> d]
         ELSE [ok |-> TRUE, docker |-> SetState(d, name, "running")]

(* start_container: the runtime answers "not modified" for a running
   container, which the client takes as success *)
start_container(d, name) ==
    LET found == {c \in d.containers : c.name = name} IN
    IF ~d.reachable \/ found = {} THEN [ok |-> FALSE, docker |-> d]
    ELSE LET c == CHOOSE x \in found : TRUE IN
         IF c.state = "running" THEN [ok |-> TRUE, docker |-> d]
         ELSE IF port_allocated(d, c) THEN [ok |-> FALSE, docker |-> d]
         ELSE [ok |-> TRUE, docker |-> SetState(d, name, "running")]

(* create_container: refused without the image and for a name in use *)
create_container(d, body) ==
    IF \/ ~d.reachable
       \/ ~d.image
       \/ \E c \in d.containers : c.name = body.name
    THEN [ok |-> FALSE, docker |-> d]
    ELSE [ok |-> TRUE, docker |-> [d EXCEPT !.containers = @ \cup {body}]]

(* a removal that takes the volumes the container mounts with it *)
remove_container_and_volumes(d, name) ==
    IF ~d.reachable \/ ~\E c \in d.containers : c.name = name
    THEN [ok |-> FALSE, docker |-> d]
    ELSE [ok |-> TRUE,
          docker |-> [d EXCEPT
              !.containers = {c \in @ : c.name # name},
              !.volumes = @ \ {m.source : m \in
                  UNION {c.mounts : c \in {x \in d.containers : x.name = name}}}]]

(* a removal without force, which the runtime refuses for a running
   container *)
remove_container_unforced(d, name) ==
    IF \/ ~d.reachable
       \/ ~\E c \in d.containers : c.name = name
       \/ \E c \in d.containers : c.name = name /\ c.state = "running"
    THEN [ok |-> FALSE, docker |-> d]
    ELSE [ok |-> TRUE,
          docker |-> [d EXCEPT !.containers = {c \in @ : c.name # name}]]

(* remove_container with force: a running container is removed as well *)
remove_container(d, name) ==
    IF ~d.reachable \/ ~\E c \in d.containers : c.name = name
    THEN [ok |-> FALSE, docker |-> d]
    ELSE [ok |-> TRUE,
          docker |-> [d EXCEPT !.containers = {c \in @ : c.name # name}]]

(* what the health check of the image reports for its containers: nothing
   where no health check is configured *)
HealthReports == {None, Some("starting"), Some("healthy"), Some("unhealthy")}

(* inspect_container: the state the runtime holds of the container of that
   name, an error where there is none *)
inspect_container(d, name) ==
    LET found == {c \in d.containers : c.name = name} IN
    IF ~d.reachable \/ found = {} THEN [ok |-> FALSE, state |-> None]
    ELSE LET c == CHOOSE x \in found : TRUE IN
         [ok |-> TRUE, state |-> Some([status |-> c.state, health |-> d.health])]

(* is_healthy of get_container_status *)
is_healthy(state) ==
    IF state.health # None THEN state.health = Some("healthy") ELSE FALSE

(* the tuple get_container_status returns, its flag first; the times and the
   error text are those of the state *)
container_status(info) ==
    IF info.state # None THEN [is_healthy |-> is_healthy(info.state[1])]
    ELSE [is_healthy |-> FALSE]

----------------------------------------------------------------------------
(***************************************************************************)
(* The gateway: src/src/bin/proxy.rs.  Its DataStore<String, User> is the   *)
(* store above, keyed by e-mail; the file is written by the service.        *)
(***************************************************************************)

(* Bound of the gateway model: the capacity of user_cache, 1024 in main,
   scaled down; requests and reloads share MaxOps *)
CacheCap == 2

Connections == {1, 2}
Tasks == {0}
Emails == {"alice", "bob"}

(* general_purpose::URL_SAFE_NO_PAD.encode / decode on the e-mails in use *)
base64_encode(e) ==
    CASE e = "alice" -> "YWxpY2U"
      [] e = "Alice" -> "QWxpY2U"
      [] e = "bob" -> "Ym9i"
      [] OTHER -> "Pz8"

base64_decode(x) ==
    IF \E e \in {"alice", "Alice", "bob"} : base64_encode(e) = x
    THEN Some(CHOOSE e \in {"alice", "Alice", "bob"} : base64_encode(e) = x)
    ELSE None

(* format!("blz_{}_{}", email_b64, secret): a key is the sequence of its
   '_'-separated parts *)
generate_api_key(e, secret) == <<"blz", base64_encode(e), secret>>

extract_email_from_api_key(k) ==
    IF Len(k) # 3 \/ k[1] # "blz" THEN None ELSE base64_decode(k[2])

(* SHA-256 in hex: no two keys in use collide *)
hash_api_key(k) == <<"sha256">> \o k

(* trimming alone *)
trim_only(e) ==
    CASE e = " alice" -> "alice"
      [] OTHER -> e

(* get_unique_instance_id: PBKDF2 of the trimmed, lower-cased e-mail *)
trim_to_lowercase(e) ==
    CASE e = "Alice" -> "alice"
      [] e = " alice" -> "alice"
      [] e = "BOB" -> "bob"
      [] OTHER -> e

pbkdf2_hex(e) ==
    CASE e = "alice" -> "a1a70763"
      [] e = "bob" -> "b0b5e3d1"
      [] OTHER -> "00000000"

(* pbkdf2_hmac::<Sha512>, hex encoded: under the secret "k1" the table
   above, under any other secret another one *)
pbkdf2_hmac(password, salt) ==
    IF salt = "k1" THEN pbkdf2_hex(password)
    ELSE CASE password = "alice" -> "5e0c2f9a"
           [] password = "bob" -> "7d41b6e3"
           [] OTHER -> "ffffffff"

(* get_unique_instance_id in a process with environment e: without the
   secret the call panics *)
get_unique_instance_id_in(e, email) ==
    IF e.BLAZE_INSTANCE_SECRET = None THEN "panic"
    ELSE pbkdf2_hmac(trim_to_lowercase(email), e.BLAZE_INSTANCE_SECRET[1])

(* the services modelled here run with the secret "k1" *)
get_unique_instance_id(email) ==
    get_unique_instance_id_in([BLAZE_INSTANCE_SECRET |-> Some("k1")], email)

KeyA1 == generate_api_key("alice", "s1")
KeyA2 == generate_api_key("alice", "s2")
KeyB1 == generate_api_key("bob", "s1")
KeyShort == <<"blz", "s1">>

APIKey(k, revoked) == [api_key_hash |-> hash_api_key(k), is_revoked |-> revoked]

VerifiedUser(e, keys) ==
    [email |-> e, username |-> e, api_key |-> keys, is_verified |-> TRUE,
     instance_id |-> get_unique_instance_id(e)]

(* what the service saves over time: nobody yet, then alice and bob verified,
   then alice's key revoked, then a second key issued to her *)
Bob == VerifiedUser("bob", <<APIKey(KeyB1, FALSE)>>)

Alice(keys) == VerifiedUser("alice", keys)

Users(a) == [e \in Emails |-> IF e = "alice" THEN a ELSE Bob]

Saved ==
    << EmptyMap,
       Users(Alice(<<APIKey(KeyA1, FALSE)>>)),
       Users(Alice(<<APIKey(KeyA1, TRUE)>>)),
       Users(Alice(<<APIKey(KeyA1, TRUE), APIKey(KeyA2, FALSE)>>)) >>

GatewayFiles == {FileJson(Serialize(Saved[i])) : i \in DOMAIN Saved}

Version(f) == CHOOSE i \in DOMAIN Saved : f = FileJson(Serialize(Saved[i]))

(* request paths as sequences of '/' and segments *)
Path(endpoint, id) == <<"/", "v1", "/", "blazedb", "/", endpoint, "/", id>>

Paths ==
    { Path("search", get_unique_instance_id("alice")),
      Path("search", get_unique_instance_id("bob")) \o <<"/">>,
      Path("query", get_unique_instance_id("alice")) }

(* paths under the prefix that end with the capability, and one that goes on *)
ShortPaths ==
    { <<"/", "v1", "/", "blazedb", "/", "search">>,
      <<"/", "v1", "/", "blazedb", "/", "search", "/">>,
      Path("search", get_unique_instance_id("alice")) }

Bearer(k) == [scheme |-> "Bearer", token |-> k]

HeaderMaps ==
    { [h \in {"Accept"} |-> [scheme |-> "", token |-> <<>>]] }
    \cup { [h \in {"Accept", "Authorization"} |->
              IF h = "Authorization" THEN a ELSE [scheme |-> "", token |-> <<>>]]
           : a \in { Bearer(KeyA1), Bearer(KeyA2), Bearer(KeyB1), Bearer(KeyShort),
                     [scheme |-> "", token |-> KeyA1],
                     [scheme |-> "Basic", token |-> KeyA1] } }

Methods == {"POST", "PATCH"}

contains(p, pat) ==
    \E i \in 1..Len(p) : i + Len(pat) - 1 <= Len(p) /\ SubSeq(p, i, i + Len(pat) - 1) = pat

RECURSIVE trim_end_matches(_)
trim_end_matches(p) ==
    IF p # <<>> /\ p[Len(p)] = "/" THEN trim_end_matches(SubSeq(p, 1, Len(p) - 1)) ELSE p

(* split('/').last(): what follows the last '/' *)
split_last(p) == IF p = <<>> \/ p[Len(p)] = "/" THEN "" ELSE p[Len(p)]

(* rsplitn(2, '/').nth(1): what precedes the last '/' *)
RECURSIVE stripped_path(_)
stripped_path(p) ==
    IF p = <<>> THEN <<"/", "v1", "/", "blazedb">>
    ELSE IF p[Len(p)] = "/" THEN SubSeq(p, 1, Len(p) - 1)
    ELSE stripped_path(SubSeq(p, 1, Len(p) - 1))

(* a gateway without denylist *)
BlockedNever(p) == FALSE

Blocked(p) ==
    \/ contains(p, <<"/", "v1", "/", "blazedb", "/", "embed">>)
    \/ contains(p, <<"/", "v1", "/", "blazedb", "/", "query">>)

extract_api_key(headers) ==
    IF "Authorization" \notin DOMAIN headers THEN [err |-> "MissingApiKey", key |-> <<>>]
    ELSE LET auth == headers["Authorization"] IN
         IF auth.scheme = "Bearer"
         THEN IF auth.token = <<>> \/ auth.token[1] # "blz" \/ Len(auth.token) < 2
              THEN [err |-> "InvalidApiKey", key |-> <<>>]
              ELSE [err |-> "", key |-> auth.token]
         ELSE IF auth.scheme # "" \/ auth.token = <<>> \/ auth.token[1] # "blz"
                 \/ Len(auth.token) < 2
              THEN [err |-> "InvalidApiKey", key |-> <<>>]
              ELSE [err |-> "", key |-> auth.token]

(* LruCache<String, CachedUser>: a sequence of entries, most recently used first *)
lru_peek_nothing(c, h) == None

lru_peek(c, h) ==
    IF \E i \in DOMAIN c : c[i].key = h
    THEN Some(c[CHOOSE i \in DOMAIN c : c[i].key = h].value)
    ELSE None

(* a cache in which a hit leaves the order as it is *)
lru_keep(c, h) == c

(* LruCache::get moves the entry found to the front *)
lru_promote(c, h) ==
    SelectSeq(c, LAMBDA e : e.key = h) \o SelectSeq(c, LAMBDA e : e.key # h)

lru_put(c, h, v) ==
    LET rest == SelectSeq(c, LAMBDA e : e.key # h)
        kept == IF Len(rest) >= CacheCap THEN SubSeq(rest, 1, CacheCap - 1) ELSE rest
    IN  <<[key |-> h, value |-> v]>> \o kept

CachedUser(user) ==
    [email |-> user.email, username |-> user.username,
     instance_id |-> user.instance_id, is_verified |-> user.is_verified]

key_valid_though_revoked(user, h) ==
    \E i \in DOMAIN user.api_key : user.api_key[i].api_key_hash = h

key_valid(user, h) ==
    \E i \in DOMAIN user.api_key :
        ~user.api_key[i].is_revoked /\ user.api_key[i].api_key_hash = h

instance_mismatch_ignored(user, instance_id) == FALSE

instance_mismatch(user, instance_id) == user.instance_id # instance_id

NoReq ==
    [pc |-> "idle", method |-> "POST", path |-> <<>>, headers |-> <<>>,
     instance_id |-> "", api_key_hash |-> <<>>, email |-> "", user |-> None,
     via |-> "none", status |-> "none", upstream |-> None]

Fail(r, e) == [r EXCEPT !.pc = "done", !.status = e]

(* the characters of the instance ids of the tenants *)
chars(instance_id) ==
    CASE instance_id = "a1a70763" -> <<97, 49, 97, 55, 48, 55, 54, 51>>
      [] instance_id = "b0b5e3d1" -> <<98, 48, 98, 53, 101, 51, 100, 49>>
      [] OTHER -> <<>>

(* the address proxy_handler forwards to: in external mode the host port of
   the instance, else the container by its name on the internal network *)
container_url(instance_id) ==
    IF env.PROXY_MODE = Some("external")
    THEN [host |-> "localhost", port |-> calculate_container_port(instance_id)]
    ELSE [host |-> container_name(instance_id), port |-> 8080]

(* a router that removes the containers it finds *)
RouterFrameRemoving ==
    /\ docker' = [docker EXCEPT !.containers = {}]
    /\ UNCHANGED <<serviceVars, call, env, arg, out>>

(* the handlers of the gateway call nothing of the container manager and
   nothing of the service *)
RouterFrame == UNCHANGED <<serviceVars, asideVars>>

(* proxy_handler up to the call of verify_api_key: the denylist, the instance
   id of the path, the key of the header, the e-mail of the key, its hash *)
proxy_handler(c) ==
    /\ req[c].pc \in {"idle", "done"}
    /\ \A d \in Connections : d < c => req[d].pc \notin {"idle", "done"}
    /\ nops < MaxOps
    /\ \E p \in arg, hs \in HeaderMaps :
         LET r == [NoReq EXCEPT !.path = p, !.headers = hs]
             k == extract_api_key(hs)
             e == extract_email_from_api_key(k.key)
         IN  req' = [req EXCEPT ![c] =
                 IF Blocked(p) THEN Fail(r, "BlockedEndpoint")
                 ELSE IF k.err # "" THEN Fail(r, k.err)
                 ELSE IF e = None THEN Fail(r, "InvalidApiKey")
                 ELSE [r EXCEPT !.pc = "verify",
                                !.instance_id = split_last(trim_end_matches(p)),
                                !.email = e[1],
                                !.api_key_hash = hash_api_key(k.key)]]
    /\ nops' = nops + 1
    /\ UNCHANGED <<cache, data, file, readers, th, last>>
    /\ RouterFrame

(* verify_api_key, first block: cache.get under the cache's write lock *)
verify_api_key(c) ==
    /\ req[c].pc = "verify"
    /\ LET cached == lru_peek(cache, req[c].api_key_hash) IN
       IF cached # None
       THEN /\ cache' = lru_promote(cache, req[c].api_key_hash)
            /\ req' = [req EXCEPT ![c].pc = "forward", ![c].user = cached,
                                  ![c].via = "hit"]
       ELSE /\ cache' = cache
            /\ req' = [req EXCEPT ![c].pc = "load", ![c].via = "miss"]
    /\ UNCHANGED storeVars
    /\ RouterFrame

(* a load that takes the record found without looking at its keys *)
load_unverified(c) ==
    /\ req[c].pc = "load"
    /\ LET user == MapGet(data, req[c].email) IN
       IF user = None
       THEN req' = [req EXCEPT ![c] = Fail(@, "InvalidApiKey")]
       ELSE req' = [req EXCEPT ![c].pc = "put", ![c].user = Some(CachedUser(user[1]))]
    /\ UNCHANGED <<cache, storeVars>>
    /\ RouterFrame

(* load_and_verify: user_store.get(email) under the store's shared lock *)
load_and_verify(c) ==
    /\ req[c].pc = "load"
    /\ LET user == MapGet(data, req[c].email) IN
       IF user = None \/ ~key_valid(user[1], req[c].api_key_hash)
       THEN req' = [req EXCEPT ![c] = Fail(@, "InvalidApiKey")]
       ELSE req' = [req EXCEPT ![c].pc = "put", ![c].user = Some(CachedUser(user[1]))]
    /\ UNCHANGED <<cache, storeVars>>
    /\ RouterFrame

(* verify_api_key, last block: cache.put under the cache's write lock *)
cache_put(c) ==
    /\ req[c].pc = "put"
    /\ cache' = lru_put(cache, req[c].api_key_hash, req[c].user[1])
    /\ req' = [req EXCEPT ![c].pc = "forward"]
    /\ UNCHANGED storeVars
    /\ RouterFrame

(* the rest of proxy_handler: the instance id check, then forward_request,
   which drops Authorization and sends to the container of instance_id; the
   method of the request is not looked at before this point *)
(* a gateway that passes every header on *)
remove_nothing(headers) == headers

(* headers.remove("Authorization"): header names compare without case *)
remove_authorization(headers) ==
    [h \in DOMAIN headers \ {"Authorization"} |-> headers[h]]

forward_request(c) ==
    /\ req[c].pc = "forward"
    /\ IF instance_mismatch(req[c].user[1], req[c].instance_id)
       THEN req' = [req EXCEPT ![c] = Fail(@, "Forbidden")]
       ELSE \E m \in Methods :
            IF m \notin {"GET", "POST", "PUT", "DELETE"}
            THEN req' = [req EXCEPT ![c] = [Fail(@, "UnsupportedMethod") EXCEPT !.method = m]]
            ELSE \E outcome \in {"Ok", "InstanceUnavailable"} :
              req' = [req EXCEPT
                  ![c].pc = "done",
                  ![c].method = m,
                  ![c].status = outcome,
                  ![c].upstream = Some(
                      [instance_id |-> req[c].instance_id,
                       url |-> container_url(chars(req[c].instance_id)),
                       path |-> stripped_path(req[c].path),
                       headers |-> remove_authorization(req[c].headers)])]
    /\ UNCHANGED <<cache, storeVars>>
    /\ RouterFrame

(* the service process saves a later state of its users to the file the
   gateway reloads *)
service_saves ==
    /\ \E i \in DOMAIN Saved : i > Version(file) /\ file' = FileJson(Serialize(Saved[i]))
    /\ UNCHANGED <<data, readers, th, nops, last, cache, req>>
    /\ UNCHANGED <<serviceVars, asideVars>>

(* the runtime once the service has activated the tenants of the store: the
   volumes and the running container of each *)
Deployed ==
    LET ids == {chars(get_unique_instance_id(e)) : e \in Emails} IN
    [reachable |-> TRUE,
     image |-> TRUE,
     health |-> None,
     volumes |-> UNION {{config_volume(i), sources_volume(i)} : i \in ids},
     containers |-> {[ContainerCreateBody(i) EXCEPT !.state = "running"] : i \in ids}]

GatewayInit ==
    /\ file \in GatewayFiles
    /\ data = StoreNew(file).data
    /\ readers = {}
    /\ th = [t \in Tasks |-> Idle]
    /\ nops = 0
    /\ last = [k \in Keys |-> None]
    /\ cache = <<>>
    /\ req = [c \in Connections |-> NoReq]
    /\ ServiceUnused
    /\ env = [PROXY_MODE |-> Some("external"), BLAZEDB_NETWORK |-> None]
    /\ docker = Deployed
    /\ call = <<>>
    /\ arg = Paths
    /\ out = <<>>

(* update_cache_task reloads the store beside the request handlers *)
GatewayNext ==
    \/ \E c \in Connections :
         \/ proxy_handler(c)
         \/ verify_api_key(c)
         \/ load_and_verify(c)
         \/ cache_put(c)
         \/ forward_request(c)
    \/ \E t \in Tasks : reload(t) \/ load_swap(t)
    \/ service_saves

SpecGateway == GatewayInit /\ [][GatewayNext]_vars

(* the gateway asked for paths without instance id *)
RoutingInit ==
    /\ file \in GatewayFiles
    /\ data = StoreNew(file).data
    /\ readers = {}
    /\ th = [t \in Tasks |-> Idle]
    /\ nops = 0
    /\ last = [k \in Keys |-> None]
    /\ cache = <<>>
    /\ req = [c \in Connections |-> NoReq]
    /\ ServiceUnused
    /\ env = [PROXY_MODE |-> None, BLAZEDB_NETWORK |-> Some("blazenet")]
    /\ docker = Deployed
    /\ call = <<>>
    /\ arg = ShortPaths
    /\ out = <<>>

SpecRouting == RoutingInit /\ [][GatewayNext]_vars


(* the gateway at work on a warm cache: the store holds its last state, in
   which alice's first key is revoked, and the cache what earlier requests
   left in it, the revoked key's entry among them *)
CacheEntries ==
    { [key |-> hash_api_key(KeyA1), value |-> CachedUser(Saved[2]["alice"])],
      [key |-> hash_api_key(KeyA2), value |-> CachedUser(Saved[4]["alice"])],
      [key |-> hash_api_key(KeyB1), value |-> CachedUser(Saved[4]["bob"])] }

WarmCaches ==
    {c \in UNION {[1..n -> CacheEntries] : n \in 0..CacheCap} :
        \A i, j \in DOMAIN c : i # j => c[i] # c[j]}

CacheInit ==
    /\ file = FileJson(Serialize(Saved[4]))
    /\ data = StoreNew(file).data
    /\ readers = {}
    /\ th = [t \in Tasks |-> Idle]
    /\ nops = 0
    /\ last = [k \in Keys |-> None]
    /\ cache \in WarmCaches
    /\ req = [c \in Connections |-> NoReq]
    /\ ServiceUnused
    /\ env = [PROXY_MODE |-> Some("external"), BLAZEDB_NETWORK |-> None]
    /\ docker = Deployed
    /\ call = <<>>
    /\ arg = Paths
    /\ out = <<>>

CacheNext ==
    \E c \in Connections :
        \/ proxy_handler(c)
        \/ verify_api_key(c)
        \/ load_and_verify(c)
        \/ cache_put(c)
        \/ forward_request(c)

SpecCache == CacheInit /\ [][CacheNext]_vars


----------------------------------------------------------------------------
(* update_cache_task: the loop of the reload task, beside the requests and
   a users file that is rewritten, truncated or removed at any moment.
   out holds how the round before ended. *)

(* interval.tick().await of the loop returns *)
interval_tick(t) ==
    /\ th[t].pc = "idle"
    /\ th' = [th EXCEPT ![t].pc = "due"]
    /\ UNCHANGED <<data, file, readers, nops, last>>
    /\ UNCHANGED others

(* a task that ends with the first reload that fails *)
update_cache_task_until_error(t) ==
    /\ th[t].pc = "due"
    /\ th' = [th EXCEPT ![t] =
                 [Idle EXCEPT
                     !.op = "reload",
                     !.pc = IF file.kind = "json" THEN "swap"
                            ELSE IF file.kind = "absent" THEN "idle" ELSE "ended",
                     !.ret = IF file.kind = "json" THEN "none"
                             ELSE IF file.kind = "absent" THEN "ok" ELSE "err",
                     !.loaded = IF file.kind = "json" THEN Deserialize(file.doc)
                                ELSE EmptyMap]]
    /\ out' = <<th[t].ret>>
    /\ UNCHANGED <<data, file, readers, nops, last>>
    /\ UNCHANGED <<cache, req, serviceVars, docker, call, env, arg>>

(* state.user_store.reload() of the loop, up to the exclusive guard: an
   error is logged and the loop goes on *)
update_cache_task(t) ==
    /\ th[t].pc = "due"
    /\ th' = [th EXCEPT ![t] =
                 [Idle EXCEPT
                     !.op = "reload",
                     !.pc = IF file.kind = "json" THEN "swap" ELSE "idle",
                     !.ret = IF file.kind = "json" THEN "none"
                             ELSE IF file.kind = "absent" THEN "ok" ELSE "err",
                     !.loaded = IF file.kind = "json" THEN Deserialize(file.doc)
                                ELSE EmptyMap]]
    /\ out' = <<th[t].ret>>
    /\ UNCHANGED <<data, file, readers, nops, last>>
    /\ UNCHANGED <<cache, req, serviceVars, docker, call, env, arg>>

(* the users file as the task may find it: written with alice's key valid
   or revoked, half written, or not there *)
ReloadFiles ==
    {FileJson(Serialize(Saved[2])), FileJson(Serialize(Saved[3])), FilePartial, FileAbsent}

(* the users file is rewritten by the service, caught half written, or
   taken away *)
users_file_changes ==
    /\ file' \in ReloadFiles \ {file}
    /\ UNCHANGED <<data, readers, th, nops, last, cache, req>>
    /\ UNCHANGED <<serviceVars, asideVars>>

(* the requests served beside the task *)
ReloadTaskRequests == 1

ReloadTaskInit ==
    /\ file \in ReloadFiles \ {FilePartial}
    /\ data = StoreNew(file).data
    /\ readers = {}
    /\ th = [t \in Tasks |-> Idle]
    /\ nops = MaxOps - ReloadTaskRequests
    /\ last = [k \in Keys |-> None]
    /\ cache = <<>>
    /\ req = [c \in Connections |-> NoReq]
    /\ ServiceUnused
    /\ env = [PROXY_MODE |-> Some("external"), BLAZEDB_NETWORK |-> None]
    /\ docker = Deployed
    /\ call = <<>>
    /\ arg = {Path("search", get_unique_instance_id("alice"))}
    /\ out = <<"none">>

ReloadTaskNext ==
    \/ \E c \in Connections :
         \/ proxy_handler(c)
         \/ verify_api_key(c)
         \/ load_and_verify(c)
         \/ cache_put(c)
         \/ forward_request(c)
    \/ \E t \in Tasks : interval_tick(t) \/ update_cache_task(t) \/ load_swap(t)
    \/ users_file_changes

(* the runtime gives the spawned task its turns *)
SpecReloadTask ==
    /\ ReloadTaskInit
    /\ [][ReloadTaskNext]_vars
    /\ \A t \in Tasks :
          /\ WF_vars(interval_tick(t))
          /\ WF_vars(update_cache_task(t))
          /\ WF_vars(load_swap(t))


(***************************************************************************)
(* The service: the handlers of src/src/bin/main.rs over                    *)
(* src/src/server/service.rs.  USER_STORE is the store above, keyed by the  *)
(* e-mail of the request as it was sent.                                    *)
(***************************************************************************)

(* Bound of the service model: the clock stops after MaxTime steps *)
MaxTime == 3

OTP_COOLDOWN_SECONDS == 30
OTP_VALID_SECONDS == 60

RawEmails == {"alice", "Alice", "bob"}
Submitted == RawEmails \cup {" "}
Otps == {"111111", "222222"}

(* the code and the secret are drawn at random: one value stands for any *)
Drawn == {"111111"}
Secrets == {"s1"}

(* field.trim().is_empty() *)
is_empty_field(x) == x \in {"", " "}

(* SHA-256 of the code *)
hash_otp(o) == <<"sha256", o>>

crypto_verify_otp(o, h) == hash_otp(o) = h

is_user_exists(m, e) == MapGet(m, e) # None

is_user_verified(m, e) == IF MapGet(m, e) # None THEN MapGet(m, e)[1].is_verified ELSE FALSE

(* the User that save_user builds: no key, not verified, an empty instance id *)
NewUser(name, e) ==
    [email |-> e, username |-> name, api_key |-> <<>>, is_verified |-> FALSE,
     instance_id |-> ""]

NoResp == [op |-> "none", email |-> "", status |-> "none", ok |-> FALSE,
           api_key |-> None, instance_id |-> None]

Resp(op, e, status, ok) == [NoResp EXCEPT !.op = op, !.email = e, !.status = status, !.ok = ok]

(* a register that saves without looking for the user first *)
auth_register_unchecked(e) ==
    /\ IF is_empty_field(e)
       THEN /\ resp' = Resp("register", e, "BAD_REQUEST", FALSE)
            /\ data' = data
       ELSE /\ data' = MapInsert(data, e, NewUser(e, e))
            /\ resp' = Resp("register", e, "CREATED", TRUE)
    /\ UNCHANGED <<file, readers, th, nops, last, cache, req, asideVars>>
    /\ UNCHANGED <<otp_cache, rate_limit, now, containers>>

(* POST /v1/blz/auth/register: empty fields, then is_user_exists, then
   save_user, which inserts in memory only *)
auth_register(e) ==
    /\ IF is_empty_field(e)
       THEN /\ resp' = Resp("register", e, "BAD_REQUEST", FALSE)
            /\ data' = data
       ELSE IF is_user_exists(data, e)
       THEN /\ resp' = Resp("register", e, "CONFLICT", FALSE)
            /\ data' = data
       ELSE /\ data' = MapInsert(data, e, NewUser(e, e))
            /\ resp' = Resp("register", e, "CREATED", TRUE)
    /\ UNCHANGED <<file, readers, th, nops, last, cache, req, asideVars>>
    /\ UNCHANGED <<otp_cache, rate_limit, now, containers>>

(* send_verification_code: the rate limit under its write lock, a random code,
   its record in OTP_CACHE, the mail; a mail that fails takes the record back *)
send_verification_code(e) ==
    IF e \in DOMAIN rate_limit /\ now - rate_limit[e] < OTP_COOLDOWN_SECONDS
    THEN /\ resp' = Resp("verify_email", e, "OK", FALSE)
         /\ UNCHANGED <<rate_limit, otp_cache>>
    ELSE /\ rate_limit' = MapInsert(rate_limit, e, now)
         /\ \E otp \in Drawn, sent \in BOOLEAN :
              /\ otp_cache' =
                    IF sent
                    THEN MapInsert(otp_cache, e,
                             [email |-> e, otp_hash |-> hash_otp(otp),
                              created_at |-> now,
                              expires_at |-> now + OTP_VALID_SECONDS])
                    ELSE MapRemove(otp_cache, e)
              /\ resp' = Resp("verify_email", e, "OK", sent)

(* POST /v1/blz/auth/verify-email *)
auth_verify_email(e) ==
    /\ IF is_empty_field(e)
       THEN /\ resp' = Resp("verify_email", e, "BAD_REQUEST", FALSE)
            /\ UNCHANGED <<rate_limit, otp_cache>>
       ELSE IF ~is_user_exists(data, e)
       THEN /\ resp' = Resp("verify_email", e, "NOT_FOUND", FALSE)
            /\ UNCHANGED <<rate_limit, otp_cache>>
       ELSE IF is_user_verified(data, e)
       THEN /\ resp' = Resp("verify_email", e, "CONFLICT", FALSE)
            /\ UNCHANGED <<rate_limit, otp_cache>>
       ELSE send_verification_code(e)
    /\ UNCHANGED <<storeVars, cache, req, asideVars, now, containers>>

(* a verification that is taken back when the container cannot be spawned *)
verify_otp_rolling_back(e, otp) ==
    LET record == MapGet(otp_cache, e) IN
    IF record = None
    THEN /\ resp' = Resp("verify_code", e, "No verification code found for this email", FALSE)
         /\ UNCHANGED <<data, otp_cache, containers>>
    ELSE IF now > record[1].expires_at
    THEN /\ otp_cache' = MapRemove(otp_cache, e)
         /\ resp' = Resp("verify_code", e, "Verification code has expired", FALSE)
         /\ UNCHANGED <<data, containers>>
    ELSE IF ~crypto_verify_otp(otp, record[1].otp_hash)
    THEN /\ resp' = Resp("verify_code", e, "Invalid verification code", FALSE)
         /\ UNCHANGED <<data, otp_cache, containers>>
    ELSE IF MapGet(data, e) = None
    THEN /\ otp_cache' = MapRemove(otp_cache, e)
         /\ resp' = Resp("verify_code", e, "User not found", FALSE)
         /\ UNCHANGED <<data, containers>>
    ELSE \E secret \in Secrets, spawned \in BOOLEAN :
           LET user == MapGet(data, e)[1]
               unique_instance_id == get_unique_instance_id(user.email)
               plain_key == generate_api_key(user.email, secret)
               verified == [user EXCEPT !.is_verified = TRUE,
                                        !.instance_id = unique_instance_id,
                                        !.api_key = Append(@, APIKey(plain_key, FALSE))]
           IN  IF spawned
               THEN /\ data' = MapInsert(data, e, verified)
                    /\ otp_cache' = MapRemove(otp_cache, e)
                    /\ containers' = containers \cup {unique_instance_id}
                    /\ resp' = [Resp("verify_code", e, "Email verified successfully", TRUE)
                                  EXCEPT !.api_key = Some(plain_key),
                                         !.instance_id = Some(verified.instance_id)]
               ELSE /\ resp' = Resp("verify_code", e, "Failed to spawn container", FALSE)
                    /\ UNCHANGED <<data, otp_cache, containers>>

(* verify_otp: the record of the e-mail, its expiry, the code, the user; then
   the user is verified, gets its instance id and a new key, is written back
   in memory, the record is dropped and the container is spawned, whose
   failure is only logged *)
verify_otp(e, otp) ==
    LET record == MapGet(otp_cache, e) IN
    IF record = None
    THEN /\ resp' = Resp("verify_code", e, "No verification code found for this email", FALSE)
         /\ UNCHANGED <<data, otp_cache, containers>>
    ELSE IF now > record[1].expires_at
    THEN /\ otp_cache' = MapRemove(otp_cache, e)
         /\ resp' = Resp("verify_code", e, "Verification code has expired", FALSE)
         /\ UNCHANGED <<data, containers>>
    ELSE IF ~crypto_verify_otp(otp, record[1].otp_hash)
    THEN /\ resp' = Resp("verify_code", e, "Invalid verification code", FALSE)
         /\ UNCHANGED <<data, otp_cache, containers>>
    ELSE IF MapGet(data, e) = None
    THEN /\ otp_cache' = MapRemove(otp_cache, e)
         /\ resp' = Resp("verify_code", e, "User not found", FALSE)
         /\ UNCHANGED <<data, containers>>
    ELSE \E secret \in Secrets, spawned \in BOOLEAN :
           LET user == MapGet(data, e)[1]
               unique_instance_id == get_unique_instance_id(user.email)
               plain_key == generate_api_key(user.email, secret)
               verified == [user EXCEPT !.is_verified = TRUE,
                                        !.instance_id = unique_instance_id,
                                        !.api_key = Append(@, APIKey(plain_key, FALSE))]
           IN  /\ data' = MapInsert(data, e, verified)
               /\ otp_cache' = MapRemove(otp_cache, e)
               /\ containers' = IF spawned THEN containers \cup {unique_instance_id}
                                ELSE containers
               /\ resp' = [Resp("verify_code", e, "Email verified successfully", TRUE)
                             EXCEPT !.api_key = Some(plain_key),
                                    !.instance_id = Some(verified.instance_id)]

(* POST /v1/blz/auth/verify-code *)
auth_verify_code(e, otp) ==
    /\ IF is_empty_field(e) \/ is_empty_field(otp)
       THEN /\ resp' = Resp("verify_code", e, "Email or OTP cannot be empty", FALSE)
            /\ UNCHANGED <<data, otp_cache, containers>>
       ELSE verify_otp(e, otp)
    /\ UNCHANGED <<file, readers, th, nops, last, cache, req, asideVars, rate_limit, now>>

(* cleanup_expired_otps, run by the task of start_cleanup_task *)
cleanup_expired_otps ==
    /\ otp_cache' = [e \in {x \in DOMAIN otp_cache : ~(now > otp_cache[x].expires_at)}
                       |-> otp_cache[e]]
    /\ rate_limit' = [e \in {x \in DOMAIN rate_limit :
                                now - rate_limit[x] < OTP_COOLDOWN_SECONDS}
                        |-> rate_limit[e]]
    /\ otp_cache' # otp_cache \/ rate_limit' # rate_limit
    /\ UNCHANGED <<storeVars, cache, req, asideVars, now, containers, resp>>

(* time passes *)
tick ==
    /\ now < MaxTime * OTP_COOLDOWN_SECONDS
    /\ now' = now + OTP_COOLDOWN_SECONDS
    /\ UNCHANGED <<storeVars, cache, req, asideVars, otp_cache, rate_limit, containers, resp>>

ServiceInit ==
    /\ file = FileAbsent
    /\ data = StoreNew(file).data
    /\ readers = {}
    /\ th = [t \in Tasks |-> Idle]
    /\ nops = 0
    /\ last = [k \in Keys |-> None]
    /\ GatewayUnused
    /\ AsideUnused
    /\ otp_cache = EmptyMap
    /\ rate_limit = EmptyMap
    /\ now = 0
    /\ containers = {}
    /\ resp = NoResp

(* the requests are served one after the other *)
ServiceNext ==
    \/ \E e \in Submitted : auth_register(e)
    \/ \E e \in Submitted : auth_verify_email(e)
    \/ \E e \in Submitted, otp \in Otps : auth_verify_code(e, otp)
    \/ cleanup_expired_otps
    \/ tick

SpecService == ServiceInit /\ [][ServiceNext]_vars


(* the service process kept running: time passes, and the one background
   task that main starts, the cleanup of start_cleanup_task, gets its turns;
   no task of the process calls periodic_save_users *)
SpecServiceRunning ==
    /\ ServiceInit
    /\ [][ServiceNext]_vars
    /\ WF_vars(tick)
    /\ WF_vars(cleanup_expired_otps)


----------------------------------------------------------------------------
(* service.rs: send_verification_code called on several connections at
   once, one call on each, the connections taken in order.  Each call holds the time it read when it began
   (ts), and for the record the time at which it came to the rate limit
   (at). *)

NHandlers == 2

Handlers == 1..NHandlers

(* the e-mail the calls are for *)
Requested == {"alice"}

NoCodeReq == [pc |-> "idle", email |-> "", ts |-> 0, at |-> 0, passed |-> FALSE,
              sent |-> FALSE]

CodeFrame == UNCHANGED <<storeVars, cache, asideVars, containers, resp>>

(* let now_timestamp = Utc::now().timestamp() *)
send_code_begin(c, e) ==
    /\ req[c].pc = "idle"
    /\ \A d \in Handlers : d < c => req[d].pc # "idle"
    /\ req' = [req EXCEPT ![c] = [NoCodeReq EXCEPT !.pc = "rate", !.email = e, !.ts = now]]
    /\ UNCHANGED <<otp_cache, rate_limit, now>>
    /\ CodeFrame

(* a check that leaves the update of the rate limit to a later moment *)
rate_limit_check_only(c) ==
    /\ req[c].pc = "rate"
    /\ LET e == req[c].email IN
       IF e \in DOMAIN rate_limit /\ req[c].ts - rate_limit[e] < OTP_COOLDOWN_SECONDS
       THEN req' = [req EXCEPT ![c].pc = "done", ![c].at = now]
       ELSE req' = [req EXCEPT ![c].pc = "store", ![c].at = now, ![c].passed = TRUE]
    /\ UNCHANGED <<rate_limit, otp_cache, now>>
    /\ CodeFrame

(* the block under rate_limit_cache.write(): the check, and the update
   before the lock is released *)
rate_limit_check(c) ==
    /\ req[c].pc = "rate"
    /\ LET e == req[c].email IN
       IF e \in DOMAIN rate_limit /\ req[c].ts - rate_limit[e] < OTP_COOLDOWN_SECONDS
       THEN /\ req' = [req EXCEPT ![c].pc = "done", ![c].at = now]
            /\ UNCHANGED rate_limit
       ELSE /\ rate_limit' = MapInsert(rate_limit, e, req[c].ts)
            /\ req' = [req EXCEPT ![c].pc = "store", ![c].at = now, ![c].passed = TRUE]
    /\ UNCHANGED <<otp_cache, now>>
    /\ CodeFrame

(* the code is drawn and its record stored under otp_cache.write() *)
otp_store(c) ==
    /\ req[c].pc = "store"
    /\ \E otp \in Drawn :
         otp_cache' = MapInsert(otp_cache, req[c].email,
                          [email |-> req[c].email, otp_hash |-> hash_otp(otp),
                           created_at |-> now,
                           expires_at |-> now + OTP_VALID_SECONDS])
    /\ req' = [req EXCEPT ![c].pc = "mail"]
    /\ UNCHANGED <<rate_limit, now>>
    /\ CodeFrame

(* mailer.send: a mail that fails takes the record of the e-mail back *)
mailer_send(c) ==
    /\ req[c].pc = "mail"
    /\ \E sent \in BOOLEAN :
         /\ otp_cache' = IF sent THEN otp_cache ELSE MapRemove(otp_cache, req[c].email)
         /\ req' = [req EXCEPT ![c].pc = "done", ![c].sent = sent]
    /\ UNCHANGED <<rate_limit, now>>
    /\ CodeFrame

CodeRequestsInit ==
    /\ file = FileAbsent
    /\ data = EmptyMap
    /\ readers = {}
    /\ th = [t \in Tasks |-> Idle]
    /\ nops = 0
    /\ last = [k \in Keys |-> None]
    /\ cache = <<>>
    /\ req = [c \in Handlers |-> NoCodeReq]
    /\ AsideUnused
    /\ otp_cache = EmptyMap
    /\ rate_limit = EmptyMap
    /\ now = 0
    /\ containers = {}
    /\ resp = NoResp

CodeRequestsNext ==
    \/ \E c \in Handlers :
         \/ \E e \in Requested : send_code_begin(c, e)
         \/ rate_limit_check(c)
         \/ otp_store(c)
         \/ mailer_send(c)
    \/ cleanup_expired_otps
    \/ tick

SpecCodeRequests == CodeRequestsInit /\ [][CodeRequestsNext]_vars


----------------------------------------------------------------------------
(* service.rs: verify_otp called on several connections at once, one call
   on each, the connections taken in order.  A call holds the copy of the
   code record and of the user it has read. *)

NoVerifyReq == [pc |-> "idle", email |-> "", otp |-> "", record |-> None,
                user |-> None, plain_key |-> None, ok |-> FALSE, status |-> "none"]

Answer(r, status) == [r EXCEPT !.pc = "done", !.status = status]

(* the keys get_new_key may draw *)
NewSecrets == {"s1", "s2"}

VerifyFrame == UNCHANGED <<file, readers, th, nops, last, cache, asideVars, rate_limit, resp>>

(* the code record is cloned under otp_cache.read(); an expired record is
   removed; the code is compared *)
verify_otp_read(c, e, otp) ==
    /\ req[c].pc = "idle"
    /\ \A d \in Handlers : d < c => req[d].pc # "idle"
    /\ LET record == MapGet(otp_cache, e)
           r == [NoVerifyReq EXCEPT !.email = e, !.otp = otp, !.record = record]
       IN  IF record = None
           THEN /\ req' = [req EXCEPT ![c] = Answer(r, "No verification code found for this email")]
                /\ UNCHANGED otp_cache
           ELSE IF now > record[1].expires_at
           THEN /\ otp_cache' = MapRemove(otp_cache, e)
                /\ req' = [req EXCEPT ![c] = Answer(r, "Verification code has expired")]
           ELSE IF ~crypto_verify_otp(otp, record[1].otp_hash)
           THEN /\ req' = [req EXCEPT ![c] = Answer(r, "Invalid verification code")]
                /\ UNCHANGED otp_cache
           ELSE /\ req' = [req EXCEPT ![c] = [r EXCEPT !.pc = "load"]]
                /\ UNCHANGED otp_cache
    /\ UNCHANGED <<data, now, containers>>
    /\ VerifyFrame

(* user_datastore.get(&data.email): a copy of the user *)
verify_otp_load(c) ==
    /\ req[c].pc = "load"
    /\ LET user == MapGet(data, req[c].email) IN
       IF user = None
       THEN /\ otp_cache' = MapRemove(otp_cache, req[c].email)
            /\ req' = [req EXCEPT ![c] = Answer(@, "User not found")]
       ELSE /\ req' = [req EXCEPT ![c].pc = "write", ![c].user = user]
            /\ UNCHANGED otp_cache
    /\ UNCHANGED <<data, now, containers>>
    /\ VerifyFrame

(* the copy is verified, given its instance id and a new key, and written
   back with insert_mem *)
verify_otp_write(c) ==
    /\ req[c].pc = "write"
    /\ \E secret \in NewSecrets :
         LET user == req[c].user[1]
             plain_key == generate_api_key(user.email, secret)
             verified == [user EXCEPT !.is_verified = TRUE,
                                      !.instance_id = get_unique_instance_id(user.email),
                                      !.api_key = Append(@, APIKey(plain_key, FALSE))]
         IN  /\ data' = MapInsert(data, req[c].email, verified)
             /\ req' = [req EXCEPT ![c].pc = "consume", ![c].user = Some(verified),
                                   ![c].plain_key = Some(plain_key)]
    /\ UNCHANGED <<otp_cache, now, containers>>
    /\ VerifyFrame

(* the code record is removed, the container is spawned, whose failure is
   only logged, and the key is returned *)
verify_otp_consume(c) ==
    /\ req[c].pc = "consume"
    /\ otp_cache' = MapRemove(otp_cache, req[c].email)
    /\ \E spawned \in BOOLEAN :
         containers' = IF spawned THEN containers \cup {req[c].user[1].instance_id}
                       ELSE containers
    /\ req' = [req EXCEPT ![c] = [Answer(@, "Email verified successfully") EXCEPT !.ok = TRUE]]
    /\ UNCHANGED <<data, now>>
    /\ VerifyFrame

(* alice has registered and has been sent one code *)
VerificationsInit ==
    /\ file = FileAbsent
    /\ data = MapInsert(EmptyMap, "alice", NewUser("alice", "alice"))
    /\ readers = {}
    /\ th = [t \in Tasks |-> Idle]
    /\ nops = 0
    /\ last = [k \in Keys |-> None]
    /\ cache = <<>>
    /\ req = [c \in Handlers |-> NoVerifyReq]
    /\ AsideUnused
    /\ otp_cache = MapInsert(EmptyMap, "alice",
                       [email |-> "alice", otp_hash |-> hash_otp("111111"),
                        created_at |-> 0, expires_at |-> OTP_VALID_SECONDS])
    /\ rate_limit = MapInsert(EmptyMap, "alice", 0)
    /\ now = 0
    /\ containers = {}
    /\ resp = NoResp

VerificationsNext ==
    \/ \E c \in Handlers :
         \/ \E e \in Requested, otp \in Otps : verify_otp_read(c, e, otp)
         \/ verify_otp_load(c)
         \/ verify_otp_write(c)
         \/ verify_otp_consume(c)
    \/ tick

SpecVerifications == VerificationsInit /\ [][VerificationsNext]_vars


----------------------------------------------------------------------------
(* main.rs: auth_register called on several connections at once, one call on
   each, the connections taken in order, beside the other requests of the
   service *)

NoRegisterReq == [pc |-> "idle", email |-> "", status |-> "none"]

RegisterFrame ==
    UNCHANGED <<file, readers, th, nops, last, cache, asideVars, serviceVars>>

(* the empty fields, then is_user_exists under the store's read lock *)
auth_register_check(c, e) ==
    /\ req[c].pc = "idle"
    /\ \A d \in Handlers : d < c => req[d].pc # "idle"
    /\ LET r == [NoRegisterReq EXCEPT !.email = e] IN
       req' = [req EXCEPT ![c] =
                 IF is_empty_field(e) THEN Answer(r, "BAD_REQUEST")
                 ELSE IF is_user_exists(data, e) THEN Answer(r, "CONFLICT")
                 ELSE [r EXCEPT !.pc = "save"]]
    /\ UNCHANGED data
    /\ RegisterFrame

(* save_user: insert_mem of a new, unverified user under the e-mail *)
auth_register_save(c) ==
    /\ req[c].pc = "save"
    /\ data' = MapInsert(data, req[c].email, NewUser(req[c].email, req[c].email))
    /\ req' = [req EXCEPT ![c] = Answer(@, "CREATED")]
    /\ RegisterFrame

RegistrationsInit ==
    /\ file = FileAbsent
    /\ data = StoreNew(file).data
    /\ readers = {}
    /\ th = [t \in Tasks |-> Idle]
    /\ nops = 0
    /\ last = [k \in Keys |-> None]
    /\ cache = <<>>
    /\ req = [c \in Handlers |-> NoRegisterReq]
    /\ AsideUnused
    /\ otp_cache = EmptyMap
    /\ rate_limit = EmptyMap
    /\ now = 0
    /\ containers = {}
    /\ resp = NoResp

RegistrationsNext ==
    \/ \E c \in Handlers :
         \/ \E e \in Requested \cup {" "} : auth_register_check(c, e)
         \/ auth_register_save(c)
    \/ \E e \in Requested : auth_verify_email(e)
    \/ \E e \in Requested, otp \in Otps : auth_verify_code(e, otp)
    \/ tick

SpecRegistrations == RegistrationsInit /\ [][RegistrationsNext]_vars

(* container.rs: get_unique_instance_id called on its own *)

(* the calls of get_unique_instance_id followed *)
MaxCalls == 2

IdentityKeys == {"alice", "Alice", " alice", "bob", "BOB"}

(* BLAZE_INSTANCE_SECRET: not set, or one of two secrets *)
InstanceSecrets == {None, Some("k1"), Some("k2")}

call_get_unique_instance_id(email) ==
    /\ Len(out) < MaxCalls
    /\ out' = Append(out, [email |-> email,
                           secret |-> env.BLAZE_INSTANCE_SECRET,
                           id |-> get_unique_instance_id_in(env, email)])
    /\ UNCHANGED <<storeVars, gatewayVars, serviceVars, docker, call, env, arg>>

(* the process is started again with another environment *)
restart_with(secret) ==
    /\ env.BLAZE_INSTANCE_SECRET # secret
    /\ env' = [env EXCEPT !.BLAZE_INSTANCE_SECRET = secret]
    /\ UNCHANGED <<storeVars, gatewayVars, serviceVars, docker, call, arg, out>>

DeriveInit ==
    /\ data = EmptyMap
    /\ file = FileAbsent
    /\ readers = {}
    /\ th = [t \in Threads |-> Idle]
    /\ nops = 0
    /\ last = [k \in Keys |-> None]
    /\ GatewayUnused
    /\ ServiceUnused
    /\ docker = <<>>
    /\ call = <<>>
    /\ env \in {[BLAZE_INSTANCE_SECRET |-> s] : s \in InstanceSecrets}
    /\ arg = <<>>
    /\ out = <<>>

DeriveNext ==
    \/ \E email \in IdentityKeys : call_get_unique_instance_id(email)
    \/ \E secret \in InstanceSecrets : restart_with(secret)

SpecDerive == DeriveInit /\ [][DeriveNext]_vars

(* the longest instance id tried, one character more than the port reads *)
MaxIdLen == 9

(* 'f', U+FFFF and U+10FFFF, the largest character *)
CodePoints == {102, 65535, 1114111}

Strings == UNION {[1..n -> CodePoints] : n \in 0..MaxIdLen}

(* a caller asks for the port of the instance id, a first and a second time *)
call_calculate_container_port ==
    /\ Len(out) < 2
    /\ out' = Append(out, calculate_container_port(arg))
    /\ UNCHANGED <<storeVars, gatewayVars, serviceVars, docker, call, env, arg>>

PortsInit ==
    /\ data = EmptyMap
    /\ file = FileAbsent
    /\ readers = {}
    /\ th = [t \in Threads |-> Idle]
    /\ nops = 0
    /\ last = [k \in Keys |-> None]
    /\ GatewayUnused
    /\ ServiceUnused
    /\ docker = <<>>
    /\ call = <<>>
    /\ env = <<>>
    /\ arg \in Strings
    /\ out = <<>>

PortsNext == call_calculate_container_port

SpecPorts == PortsInit /\ [][PortsNext]_vars


(* 'a' and 'b', two of the hexadecimal digits an instance id is made of *)
HexDigits == {97, 98}

HexStrings == UNION {[1..n -> HexDigits] : n \in 0..MaxIdLen}

(* the ids as long as s that differ from it in two places at most, and s
   with one more digit *)
Near(s) ==
    {t \in [1..Len(s) -> HexDigits] :
        Cardinality({i \in 1..Len(s) : s[i] # t[i]}) <= 2}
    \cup {Append(s, c) : c \in HexDigits}

(* a caller asks for the port of the first id, then of the second *)
call_calculate_container_port_of_each ==
    /\ Len(out) < Len(arg)
    /\ out' = Append(out, calculate_container_port(arg[Len(out) + 1]))
    /\ UNCHANGED <<storeVars, gatewayVars, serviceVars, docker, call, env, arg>>

PortPairsInit ==
    /\ data = EmptyMap
    /\ file = FileAbsent
    /\ readers = {}
    /\ th = [t \in Threads |-> Idle]
    /\ nops = 0
    /\ last = [k \in Keys |-> None]
    /\ GatewayUnused
    /\ ServiceUnused
    /\ docker = <<>>
    /\ call = <<>>
    /\ env = <<>>
    /\ \E s \in HexStrings : \E t \in Near(s) : arg = <<s, t>>
    /\ out = <<>>

PortPairsNext == call_calculate_container_port_of_each

SpecPortPairs == PortPairsInit /\ [][PortPairsNext]_vars

----------------------------------------------------------------------------
(* container.rs: the calls of the container manager, step by step *)

NoCall == [op |-> "none", instance_id |-> <<>>, pc |-> "idle", log |-> <<>>,
           before |-> <<>>, disturbed |-> FALSE]

(* the calls returned since the runtime was last disturbed, the last two
   at most *)
LastCall(h) == IF h = <<>> THEN <<>> ELSE <<h[Len(h)]>>

(* the call returns: result is "Ok" or "Err" *)
Return(result, d) ==
    /\ call' = NoCall
    /\ out' = IF call.disturbed THEN <<>>
              ELSE LastCall(out) \o <<[op |-> call.op,
                                       instance_id |-> call.instance_id,
                                       result |-> result,
                                       log |-> call.log,
                                       before |-> call.before,
                                       after |-> d]>>

Step(pc, entry) ==
    /\ call' = [call EXCEPT !.pc = pc, !.log = @ \o entry]
    /\ UNCHANGED out

RuntimeFrame == UNCHANGED <<storeVars, gatewayVars, serviceVars, env, arg>>

(* a manager that goes for the container before it has ensured the volumes *)
spawn_before_volumes(instance_id) ==
    /\ call.pc = "idle"
    /\ call' = [op |-> "spawn", instance_id |-> instance_id, pc |-> "pull",
                log |-> <<>>, before |-> docker, disturbed |-> FALSE]
    /\ UNCHANGED <<docker, out>>
    /\ RuntimeFrame

(* spawn_blazedb_container, to its first runtime request: connect_docker
   builds the client without talking to the runtime *)
spawn_blazedb_container(instance_id) ==
    /\ call.pc = "idle"
    /\ call' = [op |-> "spawn", instance_id |-> instance_id, pc |-> "config_volume",
                log |-> <<>>, before |-> docker, disturbed |-> FALSE]
    /\ UNCHANGED <<docker, out>>
    /\ RuntimeFrame

(* a manager that goes on after a volume request the runtime did not answer *)
create_volume_if_not_exists_ignoring ==
    /\ call.pc \in {"config_volume", "sources_volume"}
    /\ LET volume_name == IF call.pc = "config_volume"
                          THEN config_volume(call.instance_id)
                          ELSE sources_volume(call.instance_id)
           next == IF call.pc = "config_volume" THEN "sources_volume" ELSE "pull"
       IN IF docker.reachable /\ list_volumes(docker, volume_name) = {}
          THEN /\ docker' = [docker EXCEPT !.volumes = @ \cup {volume_name}]
               /\ Step(next, <<"create_volume">>)
          ELSE /\ Step(next, <<>>)
               /\ UNCHANGED docker
    /\ RuntimeFrame

(* create_volume_if_not_exists, for the volume the call has come to *)
create_volume_if_not_exists ==
    /\ call.pc \in {"config_volume", "sources_volume"}
    /\ LET volume_name == IF call.pc = "config_volume"
                          THEN config_volume(call.instance_id)
                          ELSE sources_volume(call.instance_id)
           next == IF call.pc = "config_volume" THEN "sources_volume" ELSE "pull"
       IN IF ~docker.reachable
          THEN Return("Err", docker) /\ UNCHANGED docker
          ELSE IF list_volumes(docker, volume_name) = {}
          THEN /\ docker' = [docker EXCEPT !.volumes = @ \cup {volume_name}]
               /\ Step(next, <<"create_volume">>)
          ELSE /\ Step(next, <<>>)
               /\ UNCHANGED docker
    /\ RuntimeFrame

(* pull_blazedb_image: what the pull reports is dropped *)
pull_blazedb_image ==
    /\ call.pc = "pull"
    /\ docker' = [docker EXCEPT !.image = @ \/ docker.reachable]
    /\ Step("exists", <<"create_image">>)
    /\ RuntimeFrame

(* the container_exists request of either call *)
check_container_exists ==
    /\ call.pc \in {"exists", "destroy_exists"}
    /\ IF ~docker.reachable
       THEN Return("Err", docker)
       ELSE IF container_exists(docker, container_name(call.instance_id))
       THEN Step(IF call.op = "spawn" THEN "start_existing" ELSE "remove",
                 <<"list_containers">>)
       ELSE IF call.op = "spawn"
       THEN Step("create", <<"list_containers">>)
       ELSE Return("Ok", docker)
    /\ UNCHANGED docker
    /\ RuntimeFrame

(* the create_container request of spawn_blazedb_container *)
spawn_create ==
    /\ call.pc = "create"
    /\ LET r == create_container(docker, ContainerCreateBody(call.instance_id)) IN
       /\ docker' = r.docker
       /\ IF r.ok THEN Step("start", <<"create_container">>)
          ELSE Return("Err", r.docker)
    /\ RuntimeFrame

(* the start_container request, of the container found or of the one created *)
spawn_start ==
    /\ call.pc \in {"start_existing", "start"}
    /\ LET r == start_container(docker, container_name(call.instance_id)) IN
       /\ docker' = r.docker
       /\ Return(IF r.ok THEN "Ok" ELSE "Err", r.docker)
    /\ RuntimeFrame

(* destroy_blazedb_container, to its first runtime request *)
destroy_blazedb_container(instance_id) ==
    /\ call.pc = "idle"
    /\ call' = [op |-> "destroy", instance_id |-> instance_id, pc |-> "destroy_exists",
                log |-> <<>>, before |-> docker, disturbed |-> FALSE]
    /\ UNCHANGED <<docker, out>>
    /\ RuntimeFrame

(* the remove_container request of destroy_blazedb_container *)
destroy_remove ==
    /\ call.pc = "remove"
    /\ LET r == remove_container(docker, container_name(call.instance_id)) IN
       /\ docker' = r.docker
       /\ Return(IF r.ok THEN "Ok" ELSE "Err", r.docker)
    /\ RuntimeFrame

(* get_container_status: one inspect request *)
get_container_status(name) ==
    /\ call.pc = "idle"
    /\ LET info == inspect_container(docker, name) IN
       out' = LastCall(out) \o <<[op |-> "status",
                                  instance_id |-> name,
                                  result |-> IF info.ok THEN "Ok" ELSE "Err",
                                  log |-> <<"inspect_container">>,
                                  before |-> docker,
                                  after |-> docker,
                                  value |-> IF info.ok THEN Some(container_status(info))
                                            ELSE None]>>
    /\ UNCHANGED <<docker, call>>
    /\ RuntimeFrame

(* what happens to the runtime behind the manager's back *)
Disturb ==
    /\ call' = IF call.pc = "idle" THEN call ELSE [call EXCEPT !.disturbed = TRUE]
    /\ out' = <<>>

(* the runtime goes away or comes back *)
runtime_reachability ==
    /\ docker' = [docker EXCEPT !.reachable = ~@]
    /\ Disturb
    /\ RuntimeFrame

(* an operator stops a running container; the restart policy leaves a
   stopped container alone *)
operator_stops(instance_id) ==
    /\ \E c \in docker.containers :
        c.name = container_name(instance_id) /\ c.state = "running"
    /\ docker' = SetState(docker, container_name(instance_id), "exited")
    /\ Disturb
    /\ RuntimeFrame

RuntimeInit ==
    /\ data = EmptyMap
    /\ file = FileAbsent
    /\ readers = {}
    /\ th = [t \in Threads |-> Idle]
    /\ nops = 0
    /\ last = [k \in Keys |-> None]
    /\ GatewayUnused
    /\ ServiceUnused
    /\ docker = [reachable |-> TRUE, image |-> FALSE, health |-> None,
                 volumes |-> {}, containers |-> {}]
    /\ call = NoCall
    /\ env \in {[BLAZEDB_NETWORK |-> n] : n \in NetworkSettings}
    /\ arg = <<>>
    /\ out = <<>>

RuntimeNext ==
    \/ \E i \in Instances : spawn_blazedb_container(i)
    \/ create_volume_if_not_exists
    \/ pull_blazedb_image
    \/ check_container_exists
    \/ spawn_create
    \/ spawn_start
    \/ \E i \in Instances : destroy_blazedb_container(i)
    \/ destroy_remove
    \/ \E i \in Instances : get_container_status(container_name(i))
    \/ runtime_reachability
    \/ \E i \in Instances : operator_stops(i)

SpecRuntime == RuntimeInit /\ [][RuntimeNext]_vars


----------------------------------------------------------------------------
(* container.rs: the status of the containers of a runtime whose health
   check reports come and go *)

(* the health check reports something else *)
health_reported(h) ==
    /\ call.pc = "idle"
    /\ h # docker.health
    /\ docker' = [docker EXCEPT !.health = h]
    /\ UNCHANGED <<call, out>>
    /\ RuntimeFrame

StatusInit ==
    /\ data = EmptyMap
    /\ file = FileAbsent
    /\ readers = {}
    /\ th = [t \in Threads |-> Idle]
    /\ nops = 0
    /\ last = [k \in Keys |-> None]
    /\ GatewayUnused
    /\ ServiceUnused
    /\ env = [BLAZEDB_NETWORK |-> None]
    /\ docker \in {[reachable |-> TRUE, image |-> TRUE, health |-> h,
                    volumes |-> UNION {{config_volume(i), sources_volume(i)} : i \in ids},
                    containers |-> {[ContainerCreateBody(i) EXCEPT !.state = "running"] : i \in ids}] :
                   h \in HealthReports, ids \in SUBSET Instances}
    /\ call = NoCall
    /\ arg = <<>>
    /\ out = <<>>

StatusNext ==
    \/ \E i \in Instances : get_container_status(container_name(i))
    \/ \E h \in HealthReports : health_reported(h)

SpecStatus == StatusInit /\ [][StatusNext]_vars


----------------------------------------------------------------------------
(* a deployment: the service provisions the containers of its tenants under
   its BLAZEDB_NETWORK, the gateway computes their addresses under its
   PROXY_MODE; each setting is made or left out on its own *)

ProxyModes == {None, Some("external")}

Tenants == {chars(get_unique_instance_id(e)) : e \in Emails}

DeploymentInit ==
    /\ data = EmptyMap
    /\ file = FileAbsent
    /\ readers = {}
    /\ th = [t \in Threads |-> Idle]
    /\ nops = 0
    /\ last = [k \in Keys |-> None]
    /\ GatewayUnused
    /\ ServiceUnused
    /\ env \in {[PROXY_MODE |-> p, BLAZEDB_NETWORK |-> n] :
                   p \in ProxyModes, n \in NetworkSettings}
    /\ docker = [reachable |-> TRUE, image |-> FALSE, health |-> None,
                 volumes |-> {}, containers |-> {}]
    /\ call = NoCall
    /\ arg = <<>>
    /\ out = <<>>

DeploymentNext ==
    \/ \E i \in Tenants : spawn_blazedb_container(i)
    \/ create_volume_if_not_exists
    \/ pull_blazedb_image
    \/ check_container_exists
    \/ spawn_create
    \/ spawn_start

SpecDeployment == DeploymentInit /\ [][DeploymentNext]_vars

(* C2: after any registrations and verifications, two tenant records stored
   under different keys never hold the same non-empty instance id. *)
C2_DistinctInstances ==
    \A e1, e2 \in DOMAIN data :
        (e1 # e2 /\ data[e1].instance_id # "")
            => data[e1].instance_id # data[e2].instance_id

(* C3: a tenant record has no instance id before a verification of its
   e-mail succeeds, and an instance id once set is the same after every
   later request, whatever the request. *)
C3_Set ==
    \A e \in DOMAIN data' :
        (data'[e].instance_id # "" /\ (e \notin DOMAIN data \/ data[e].instance_id = ""))
            => /\ resp'.op = "verify_code" /\ resp'.email = e /\ resp'.ok
               /\ e \in DOMAIN data /\ ~data[e].is_verified

C3_Kept ==
    \A e \in DOMAIN data :
        data[e].instance_id # ""
            => e \in DOMAIN data' /\ data'[e].instance_id = data[e].instance_id

C3_InstanceIdSetOnce ==
    [](\A e \in DOMAIN data : ~data[e].is_verified => data[e].instance_id = "")
    /\ [][C3_Set /\ C3_Kept]_vars

C3_Witness ==
    /\ resp.op = "register" /\ resp.status = "CONFLICT"
    /\ data[resp.email].instance_id # ""
    /\ \E e \in DOMAIN data : data[e].instance_id = ""


(* C1: a request is sent to a container only when the instance id of the
   identity that verify returned equals the instance id of the request path,
   whether the identity came from the cache or from the store; a request whose
   credential verified but whose identity has another instance id ends with
   Forbidden and is sent nowhere. *)
C1_ForwardOnlyOwnInstance ==
    \A c \in DOMAIN req :
        /\ req[c].upstream # None =>
              /\ req[c].user # None
              /\ req[c].user[1].instance_id = req[c].instance_id
              /\ req[c].upstream[1].instance_id = req[c].user[1].instance_id
        /\ (req[c].pc = "done" /\ req[c].user # None
              /\ req[c].user[1].instance_id # req[c].instance_id) =>
              /\ req[c].status = "Forbidden"
              /\ req[c].upstream = None

C1_Witness ==
    \E c, d \in DOMAIN req :
        /\ req[c].upstream # None /\ req[c].via = "hit"
        /\ req[d].status = "Forbidden" /\ req[d].via = "miss" /\ req[d].user # None

(* C4: on a cache miss the verification succeeds exactly when the store holds
   a record under the e-mail embedded in the key and that record has a key
   that is not revoked and has the hash of the presented key; otherwise the
   request fails with InvalidApiKey. *)
C4_StoreAccepts(e, h) ==
    /\ e \in DOMAIN data
    /\ \E i \in DOMAIN data[e].api_key :
         /\ data[e].api_key[i].api_key_hash = h
         /\ data[e].api_key[i].is_revoked = FALSE

C4_Miss ==
    \A c \in DOMAIN req :
        (req[c].pc = "load" /\ req'[c].pc # "load") =>
            IF C4_StoreAccepts(req[c].email, req[c].api_key_hash)
            THEN /\ req'[c].pc = "put"
                 /\ req'[c].status = "none"
                 /\ req'[c].user = Some(CachedUser(data[req[c].email]))
            ELSE /\ req'[c].pc = "done"
                 /\ req'[c].status = "InvalidApiKey"
                 /\ req'[c].user = None

C4_MissVerifiesAgainstStore == [][C4_Miss]_vars

C4_Witness ==
    \E c, d \in DOMAIN req :
        /\ req[c].via = "miss" /\ req[c].user # None
        /\ req[d].via = "miss" /\ req[d].status = "InvalidApiKey"
        /\ req[d].email \in DOMAIN data
        /\ \E i \in DOMAIN data[req[d].email].api_key :
             /\ data[req[d].email].api_key[i].api_key_hash = req[d].api_key_hash
             /\ data[req[d].email].api_key[i].is_revoked

(* C5: while the cache holds an entry for the hash of a key, a verification
   with that key returns the identity of the entry and goes on without a read
   of the store, whatever the store holds by then; an entry leaves the cache
   or changes only when a verification that missed puts its own identity. *)
C5_Cached(c, h) == \E i \in DOMAIN c : c[i].key = h

C5_Entry(c, h) == c[CHOOSE i \in DOMAIN c : c[i].key = h].value

C5_Hit ==
    \A c \in DOMAIN req :
        (req[c].pc = "verify" /\ req'[c].pc # "verify"
            /\ C5_Cached(cache, req[c].api_key_hash)) =>
            /\ req'[c].pc = "forward"
            /\ req'[c].user = Some(C5_Entry(cache, req[c].api_key_hash))
            /\ C5_Cached(cache', req[c].api_key_hash)
            /\ C5_Entry(cache', req[c].api_key_hash) = C5_Entry(cache, req[c].api_key_hash)

C5_Kept ==
    \A i \in DOMAIN cache :
        (~C5_Cached(cache', cache[i].key)
            \/ C5_Entry(cache', cache[i].key) # cache[i].value) =>
            \E c \in DOMAIN req :
                /\ req[c].pc = "put" /\ req'[c].pc = "forward"
                /\ req[c].api_key_hash = cache[i].key \/ Len(cache) = CacheCap

C5_CachedIdentityServed == [][C5_Hit /\ C5_Kept]_vars

C5_Witness ==
    \E c \in DOMAIN req :
        /\ req[c].via = "hit" /\ req[c].user # None
        /\ req[c].email \in DOMAIN data
        /\ ~key_valid(data[req[c].email], req[c].api_key_hash)
        /\ \E t \in DOMAIN th : th[t].op = "reload" /\ th[t].pc = "idle"


(* C6: after insert(k, v) returned Ok, get(k) returns Some(v) as long as no
   later insert, delete, clear or batch_insert touches k; insert returns the
   value stored under k before (None when there was none); delete(k) returns
   the removed value and then get(k) returns None. *)

C6_Kept ==
    /\ \A k \in Keys :
          last[k] # None => k \in DOMAIN data /\ <<data[k]>> = last[k]
    /\ \A t \in DOMAIN th :
          th[t].pc = "idle" /\ th[t].ret = "ok" /\ th[t].op \in {"insert", "delete"}
              => th[t].old = th[t].pre

C6_Returns ==
    \A t \in DOMAIN th :
        /\ th[t].pc = "idle" /\ th'[t].op = "get" /\ th'[t] # th[t]
              /\ last[th'[t].key] # None
              => th'[t].old = last[th'[t].key]
        /\ th'[t].op = "delete" /\ th'[t].pc = "idle" /\ th'[t].ret = "ok"
              /\ th'[t] # th[t]
              => th'[t].key \notin DOMAIN data'

C6_RoundTrip == []C6_Kept /\ [][C6_Returns]_vars

C6_Witness ==
    \E t, u \in DOMAIN th :
        /\ th[t].op = "get" /\ th[t].pc = "idle"
        /\ last[th[t].key] # None /\ th[t].old = last[th[t].key]
        /\ th[u].op = "reload" /\ th[u].ret = "ok" /\ th[u].loaded # EmptyMap

(* C7: when no write of the file is in progress, every pair of a durable insert
   that returned Ok, whose key was neither deleted nor written again, is in
   the store that DataStore::new opens on the backing file, with its value. *)
C7_Persisted ==
    (\A t \in DOMAIN th : th[t].pc # "save_write")
        => \A k \in Keys :
              last[k] # None
                  => /\ StoreNew(file).ok
                     /\ k \in DOMAIN StoreNew(file).data
                     /\ <<StoreNew(file).data[k]>> = last[k]

C7_Witness ==
    \E k \in Keys, t \in DOMAIN th :
        /\ last[k] # None
        /\ <<StoreNew(file).data[k]>> = last[k]
        /\ th[t].op = "insert_mem" /\ th[t].key # k /\ th[t].pc = "idle"
        /\ StoreNew(file).data # data

(* C8: when N workers have each inserted one of N distinct keys into a fresh
   store and nothing else was called, the map holds exactly these N pairs. *)
InsertsDone == {t \in DOMAIN th : th[t].op = "insert" /\ th[t].pc = "idle"}

C8_NoLostInsert ==
    LET D == InsertsDone IN
    (/\ nops = Cardinality(D)
     /\ \A t, u \in D : t # u => th[t].key # th[u].key)
        => /\ Cardinality(DOMAIN data) = Cardinality(D)
           /\ \A t \in D : th[t].key \in DOMAIN data /\ data[th[t].key] = th[t].val

C8_Witness ==
    /\ InsertsDone = Workers
    /\ \A t, u \in Workers : t # u => th[t].key # th[u].key
    /\ Cardinality(DOMAIN data) = NWorkers

(* C9: a reader that copies the map while a reload is under way ends with a
   whole map the store held while the reader had its guard: the map before
   the reload or the map read from the file, never a mixture. *)
C9_ReaderSeesWholeMap ==
    \A t \in DOMAIN th :
        th[t].op = "snapshot" /\ th[t].pc = "idle" => th[t].obs \in th[t].whole

C9_Witness ==
    \E t, u \in DOMAIN th :
        /\ th[t].op = "snapshot" /\ th[t].pc = "idle" /\ th[t].met
        /\ Cardinality(DOMAIN th[t].obs) = 2
        /\ th[u].pc = "swap" /\ th[u].loaded # th[t].obs

(* C10: no thread holds the store's lock, shared or exclusive, while it
   writes the backing file. *)
C10_NoLockDuringFileIO ==
    \A t \in DOMAIN th : th[t].pc = "save_write" => t \notin readers

----------------------------------------------------------------------------
(* two calls of spawn_blazedb_container for one instance id, one right after
   the other, the runtime reachable and left alone from the start of the
   first to the return of the second *)
C11_Twice ==
    /\ Len(out) = 2
    /\ out[1].op = "spawn" /\ out[2].op = "spawn"
    /\ out[1].instance_id = out[2].instance_id
    /\ out[1].before.reachable

(* exactly one container carries the name of the instance, and it runs *)
C11_OneRunning(d, instance_id) ==
    \E c \in d.containers :
        /\ c.name = container_name(instance_id)
        /\ c.state = "running"
        /\ \A o \in d.containers : o.name = c.name => o = c

(* no running container of another instance has bound the host port of
   this one *)
C11_PortFree(d, instance_id) ==
    \A o \in d.containers :
        (o.state = "running" /\ o.name # container_name(instance_id)) =>
            o.port_bindings # Some(calculate_container_port(instance_id))

(* C11 as stated: whatever the runtime holds (the container of the instance
   absent, stopped or running), two calls of ensure_running in a row both
   return Ok and leave exactly one container named for the instance,
   running. *)
C11_EnsureRunningIdempotent ==
    C11_Twice =>
        /\ out[1].result = "Ok"
        /\ out[2].result = "Ok"
        /\ C11_OneRunning(out[2].after, out[2].instance_id)

(* C11, amended: the same, provided that where containers bind host ports
   no running container of another instance holds the port derived for
   this one. *)
C11_IdempotentWherePortFree ==
    (C11_Twice /\ (network_mode = "bridge" =>
                      C11_PortFree(out[1].before, out[1].instance_id))) =>
        /\ out[1].result = "Ok"
        /\ out[2].result = "Ok"
        /\ C11_OneRunning(out[2].after, out[2].instance_id)

(* two calls in a row in bridge mode, the first of which found the
   container stopped, beside a running container of another instance *)
C11_Witness ==
    /\ C11_Twice
    /\ network_mode = "bridge"
    /\ C11_PortFree(out[1].before, out[1].instance_id)
    /\ \E c \in out[1].before.containers :
        c.name = container_name(out[1].instance_id) /\ c.state = "exited"
    /\ \E o \in out[1].before.containers :
        o.name # container_name(out[1].instance_id) /\ o.state = "running"
    /\ out[2].result = "Ok"

----------------------------------------------------------------------------
(* every container of an instance mounts the two volumes of that instance,
   and both exist *)
C12_Mounted(d) ==
    \A c \in d.containers, i \in Instances :
        c.name = container_name(i) =>
            /\ {m.source : m \in c.mounts} = {config_volume(i), sources_volume(i)}
            /\ {config_volume(i), sources_volume(i)} \subseteq d.volumes

(* C12: no step of destroy, nor of anything else, removes a volume: a volume
   ensure_running has created exists ever after, and a container created
   again after a destroy mounts the same two volumes. *)
C12_VolumesOutliveContainers ==
    [][/\ docker.volumes \subseteq docker'.volumes
       /\ C12_Mounted(docker')]_vars

(* a destroy removed the container of an instance, and the ensure_running
   after it created the container again without creating a volume *)
C12_Witness ==
    /\ Len(out) = 2
    /\ out[1].op = "destroy" /\ out[1].result = "Ok"
    /\ container_exists(out[1].before, container_name(out[1].instance_id))
    /\ out[2].op = "spawn" /\ out[2].result = "Ok"
    /\ out[2].instance_id = out[1].instance_id
    /\ \A k \in 1..Len(out[2].log) : out[2].log[k] # "create_volume"
    /\ \E k \in 1..Len(out[2].log) : out[2].log[k] = "create_container"
    /\ C12_Mounted(out[2].after)

----------------------------------------------------------------------------
(* the containers that carry the name of an instance, and the others *)
C13_Named(d, instance_id) ==
    {c \in d.containers : c.name = container_name(instance_id)}

C13_Others(d, instance_id) == d.containers \ C13_Named(d, instance_id)

(* the last call returned was a destroy, the runtime reachable and left
   alone while it ran *)
C13_Destroyed ==
    /\ out # <<>>
    /\ out[Len(out)].op = "destroy"
    /\ out[Len(out)].before.reachable

(* C13: destroy returns Ok; it leaves no container named for the instance
   when there was one, running or stopped, and the runtime as it was when
   there was none; the containers of other instances stay as they were. *)
C13_DestroyRemovesOnlyOwn ==
    C13_Destroyed =>
        LET r == out[Len(out)] IN
        /\ r.result = "Ok"
        /\ C13_Named(r.after, r.instance_id) = {}
        /\ C13_Named(r.before, r.instance_id) = {} => r.after = r.before
        /\ C13_Others(r.after, r.instance_id) = C13_Others(r.before, r.instance_id)
        /\ r.after.volumes = r.before.volumes

(* a destroy removed the running container of an instance beside the
   running container of another *)
C13_Witness ==
    /\ C13_Destroyed
    /\ LET r == out[Len(out)] IN
       /\ \E c \in C13_Named(r.before, r.instance_id) : c.state = "running"
       /\ \E c \in C13_Others(r.after, r.instance_id) : c.state = "running"
       /\ r.result = "Ok"

----------------------------------------------------------------------------
(* the path names a denylisted capability right after the prefix *)
C14_Denylisted(p) ==
    /\ Len(p) >= 6
    /\ SubSeq(p, 1, 5) = <<"/", "v1", "/", "blazedb", "/">>
    /\ p[6] \in {"embed", "query"}

(* C14: a request for a denylisted capability ends in BlockedEndpoint with no
   credential taken from its header, the cache and the store not asked, and
   nothing sent upstream, whatever its header holds. *)
C14_BlockedBeforeAuthentication ==
    \A c \in Connections :
        (req[c].pc # "idle" /\ C14_Denylisted(req[c].path)) =>
            /\ req[c].pc = "done"
            /\ req[c].status = "BlockedEndpoint"
            /\ req[c].api_key_hash = <<>>
            /\ req[c].email = ""
            /\ req[c].via = "none"
            /\ req[c].user = None
            /\ req[c].upstream = None

(* a request for a denylisted capability was rejected although it carried a
   credential the store holds as valid *)
C14_Witness ==
    \E c \in Connections :
        /\ req[c].status = "BlockedEndpoint"
        /\ "Authorization" \in DOMAIN req[c].headers
        /\ req[c].headers["Authorization"] = Bearer(KeyA1)
        /\ MapGet(data, "alice") # None
        /\ key_valid(MapGet(data, "alice")[1], hash_api_key(KeyA1))

----------------------------------------------------------------------------
(* the header value has the bearer scheme and then a credential of three
   parts with the fixed prefix *)
C15_BearerShape(a) ==
    /\ a.scheme = "Bearer"
    /\ Len(a.token) = 3
    /\ a.token[1] = "blz"

(* the request ended with the error, nothing looked up and nothing sent *)
C15_Rejected(r, e) ==
    /\ r.pc = "done"
    /\ r.status = e
    /\ r.via = "none"
    /\ r.user = None
    /\ r.upstream = None

(* C15: a request (for a capability that is not denylisted) without
   authorization header ends in MissingApiKey, one whose authorization header
   is not the bearer scheme followed by a credential of the fixed shape ends
   in InvalidApiKey, and in both cases the cache and the store are not asked
   and nothing is sent upstream. *)
C15_MalformedCredentialRejected ==
    \A c \in Connections :
        (req[c].pc # "idle" /\ ~C14_Denylisted(req[c].path)) =>
            /\ "Authorization" \notin DOMAIN req[c].headers =>
                  C15_Rejected(req[c], "MissingApiKey")
            /\ ("Authorization" \in DOMAIN req[c].headers
                  /\ ~C15_BearerShape(req[c].headers["Authorization"])) =>
                  C15_Rejected(req[c], "InvalidApiKey")

----------------------------------------------------------------------------
(* the path ends with the capability: no segment follows it *)
C16_NoInstance(p) ==
    \/ Len(p) = 6 /\ SubSeq(p, 1, 5) = <<"/", "v1", "/", "blazedb", "/">>
    \/ Len(p) = 7 /\ SubSeq(p, 1, 5) = <<"/", "v1", "/", "blazedb", "/">> /\ p[7] = "/"

(* C16: a request under the prefix whose path has no instance id after the
   capability (and is not denylisted) ends in InvalidPath, without its
   credential looked up and without anything sent upstream. *)
C16_MissingInstanceRejected ==
    \A c \in Connections :
        (req[c].pc # "idle" /\ C16_NoInstance(req[c].path)
            /\ ~C14_Denylisted(req[c].path)) =>
            /\ req[c].pc = "done"
            /\ req[c].status = "InvalidPath"
            /\ req[c].via = "none"
            /\ req[c].user = None
            /\ req[c].upstream = None

----------------------------------------------------------------------------
(* C17: the headers of every request the gateway sends to a container are
   the headers of the inbound request without the authorization header,
   each with its inbound value. *)
C17_AuthorizationNeverForwarded ==
    \A c \in Connections :
        req[c].upstream # None =>
            LET sent == req[c].upstream[1].headers IN
            /\ "Authorization" \notin DOMAIN sent
            /\ \A h \in DOMAIN req[c].headers :
                 h # "Authorization" => (h \in DOMAIN sent /\ sent[h] = req[c].headers[h])
            /\ \A h \in DOMAIN sent : h \in DOMAIN req[c].headers

(* a request that came with a credential and another header was sent
   upstream and answered *)
C17_Witness ==
    \E c \in Connections :
        /\ req[c].upstream # None
        /\ req[c].status = "Ok"
        /\ "Authorization" \in DOMAIN req[c].headers
        /\ DOMAIN req[c].upstream[1].headers = {"Accept"}

----------------------------------------------------------------------------
(* C18: for every instance id, of any length and with any characters, each
   call of calculate_container_port returns a port from 50000 to 59999,
   which fits the 16 bits of a port, and a second call returns the port of
   the first. *)
C18_PortInRangeAndStable ==
    \A k \in 1..Len(out) :
        /\ out[k] >= 50000
        /\ out[k] <= 59999
        /\ out[k] < 65536
        /\ out[k] = out[1]

(* the port of an id shorter than 8 characters that holds a character
   beyond 16 bits was asked for twice *)
C18_Witness ==
    /\ Len(out) = 2
    /\ Len(arg) \in 1..7
    /\ \E k \in 1..Len(arg) : arg[k] > 65535

(* the sum of the code points of the first 8 characters, and the same with
   every code point reduced to 16 bits *)
RECURSIVE C19_Sum(_, _)
C19_Sum(s, k) == IF k = 0 THEN 0 ELSE s[k] + C19_Sum(s, k - 1)

RECURSIVE C19_Sum16(_, _)
C19_Sum16(s, k) == IF k = 0 THEN 0 ELSE (s[k] % 65536) + C19_Sum16(s, k - 1)

C19_First(s) == IF Len(s) < 8 THEN Len(s) ELSE 8

(* C19 as stated: the port is 50000 plus the sum of the code points of the
   first 8 characters modulo 10000. *)
C19_PortIsSumMod ==
    \A k \in 1..Len(out) :
        out[k] = 50000 + (C19_Sum(arg, C19_First(arg)) % 10000)

(* C19, amended: the port is 50000 plus, modulo 10000, the sum of the first
   8 code points computed in 16 bits (each code point and the sum reduced
   modulo 65536); that is the plain sum modulo 10000 whenever the plain sum
   is below 65536. *)
C19_PortIsWrappedSumMod ==
    \A k \in 1..Len(out) :
        /\ out[k] = 50000 + ((C19_Sum16(arg, C19_First(arg)) % 65536) % 10000)
        /\ C19_Sum(arg, C19_First(arg)) < 65536 =>
             out[k] = 50000 + (C19_Sum(arg, C19_First(arg)) % 10000)

(* the port of an id of 9 characters whose first 8 code points sum beyond
   16 bits was computed *)
C19_Witness ==
    /\ out # <<>>
    /\ Len(arg) = 9
    /\ C19_Sum(arg, 8) >= 65536
    /\ out[1] # 50000 + (C19_Sum(arg, 8) % 10000)

----------------------------------------------------------------------------
(* the identity key once surrounding whitespace is trimmed and letters are
   lower-cased *)
C20_Normalized(e) ==
    IF e \in {"alice", "Alice", " alice"} THEN "alice" ELSE "bob"

(* C20: two calls of get_unique_instance_id under the same secret, with
   e-mails that are equal once trimmed and lower-cased, return the same
   instance id; so do two calls with the same e-mail. *)
C20_IdOfNormalizedKeyAndSecret ==
    \A i, j \in 1..Len(out) :
        (/\ out[i].secret # None
         /\ out[i].secret = out[j].secret
         /\ C20_Normalized(out[i].email) = C20_Normalized(out[j].email)) =>
            out[i].id = out[j].id

(* the id was derived for "Alice" and for " alice" under the same secret,
   and differs from the id of the same key under the other secret *)
C20_Witness ==
    /\ Len(out) = 2
    /\ out[1].email = "Alice" /\ out[2].email = " alice"
    /\ out[1].secret = Some("k2") /\ out[2].secret = Some("k2")
    /\ out[1].id = out[2].id
    /\ out[1].id # get_unique_instance_id("alice")

----------------------------------------------------------------------------
(* C21: no step of the handling of a gateway request changes the container
   runtime: its containers, their state and its volumes stay as they are,
   whatever the request and however it ends. *)
C21_RouterLeavesRuntimeAlone ==
    [][docker' = docker]_vars

(* a request was sent to the running container of its tenant and answered,
   another one was refused *)
C21_Witness ==
    /\ \E c \in Connections : req[c].status = "Ok" /\ req[c].upstream # None
    /\ \E c \in Connections : req[c].status = "Forbidden"
    /\ \E k \in docker.containers : k.state = "running"

----------------------------------------------------------------------------
(* what the runtime reported of the health when the status call r was made *)
C22_Reported(r) == r.before.health

C22_StatusReturned(r) == r.op = "status" /\ r.result = "Ok"

(* C22: the status of an existing container without health check is returned
   successfully with a health that differs from the health returned for an
   unhealthy container, and the health returned is healthy only if the
   runtime reported healthy. *)
C22_UnknownDistinctFromUnhealthy ==
    /\ \A i \in DOMAIN out :
        (C22_StatusReturned(out[i]) /\ out[i].value[1].is_healthy)
            => C22_Reported(out[i]) = Some("healthy")
    /\ \A i \in DOMAIN out :
        (out[i].op = "status" /\ out[i].before.reachable
         /\ \E c \in out[i].before.containers : c.name = out[i].instance_id)
            => out[i].result = "Ok"
    /\ \A i, j \in DOMAIN out :
        (/\ C22_StatusReturned(out[i]) /\ C22_StatusReturned(out[j])
         /\ C22_Reported(out[i]) = None
         /\ C22_Reported(out[j]) = Some("unhealthy"))
            => out[i].value # out[j].value

----------------------------------------------------------------------------
(* the call in progress began with the runtime out of reach, and nothing
   has happened to the runtime since *)
C23_BegunUnreachable == call.pc # "idle" /\ ~call.disturbed /\ ~call.before.reachable

(* the step is the first runtime request of such a call *)
C23_FirstRequest == C23_BegunUnreachable /\ call' # call /\ ~call'.disturbed

(* the step is a status call with the runtime out of reach *)
C23_StatusUnreachable ==
    /\ call.pc = "idle" /\ call'.pc = "idle" /\ ~docker.reachable
    /\ out' # out /\ out' # <<>>

C23_ReturnsErr(op) ==
    /\ call'.pc = "idle"
    /\ out' # <<>>
    /\ out'[Len(out')].op = op
    /\ out'[Len(out')].result = "Err"
    /\ out'[Len(out')].after = out'[Len(out')].before

(* C23: with the container runtime out of reach, the first runtime request
   of spawn_blazedb_container and of destroy_blazedb_container, and the one
   request of get_container_status, ends the call with an error: no second
   request is made, and containers and volumes are as they were. *)
C23_UnreachableIsOneError ==
    [][/\ C23_FirstRequest => (C23_ReturnsErr(call.op) /\ docker' = docker)
       /\ C23_StatusUnreachable => (C23_ReturnsErr("status") /\ docker' = docker)]_vars

(* with a container there, a spawn and then a status call were made while the
   runtime was out of reach, and a destroy call has begun *)
C23_Witness ==
    /\ Len(out) = 2
    /\ out[1].op = "spawn" /\ out[2].op = "status"
    /\ \A i \in 1..2 : ~out[i].before.reachable /\ out[i].result = "Err"
                       /\ out[i].after = out[i].before
    /\ \E c \in docker.containers : c.name = container_name(out[1].instance_id)
    /\ call.op = "destroy" /\ C23_BegunUnreachable

----------------------------------------------------------------------------
(* the value of the last pair of the batch b that has the key k *)
C24_LastValue(b, k) ==
    b[CHOOSE i \in DOMAIN b :
          b[i][1] = k /\ \A j \in DOMAIN b : b[j][1] = k => j <= i][2]

(* the thread t enters batch_insert in this step *)
C24_Enters(t) ==
    th[t].pc = "idle" /\ th'[t].pc = "save" /\ th'[t].op = "batch_insert"

(* C24: batch_insert puts all its pairs into the map in one exclusive
   section, entered while no thread holds the lock in shared mode, so that
   the map goes from the one without the batch to the one with all of it,
   the last value of a repeated key winning; the call then empties the
   backing file once and writes the whole map once, and returns. *)
C24_BatchIsOneSectionOneWrite ==
    [][\A t \in Threads :
        /\ C24_Enters(t) =>
            /\ readers = {}
            /\ DOMAIN data' = DOMAIN data \cup BatchKeys(th'[t].batch)
            /\ \A k \in DOMAIN data' :
                data'[k] = IF k \in BatchKeys(th'[t].batch)
                           THEN C24_LastValue(th'[t].batch, k)
                           ELSE data[k]
            /\ file' = file
        /\ (th[t].op = "batch_insert" /\ th[t].pc = "save" /\ th'[t] # th[t]) =>
            \/ th'[t].pc = "save_write" /\ file' = FilePartial /\ data' = data
            \/ th'[t].pc = "idle" /\ th'[t].ret = "err" /\ file' = file /\ data' = data
        /\ (th[t].op = "batch_insert" /\ th[t].pc = "save_write" /\ th'[t].pc # "save_write") =>
            /\ th'[t].pc = "idle" /\ th'[t].ret = "ok"
            /\ file' = FileJson(Serialize(data))
            /\ data' = data]_vars

(* a batch that names a key twice was inserted and written, the second value
   is in the map and in the file, and the other thread has taken a snapshot *)
C24_Witness ==
    \E t, u \in Threads :
        /\ t # u
        /\ th[t].op = "batch_insert" /\ th[t].ret = "ok"
        /\ th[t].batch = << <<"k1", "v1">>, <<"k1", "v2">> >>
        /\ MapGet(data, "k1") = Some("v2")
        /\ file = FileJson(Serialize(data))
        /\ th[u].op = "snapshot" /\ th[u].ret = "ok"

----------------------------------------------------------------------------
(* the runtime requests the returned call r made, as a set *)
C25_Requests(r) == {r.log[i] : i \in DOMAIN r.log}

(* C25: a spawn_blazedb_container call that finds the container of its
   instance in the runtime requests neither an image pull nor a container
   creation: it only ensures the volumes and starts the container. *)
C25_NoPullWhereContainerExists ==
    \A i \in DOMAIN out :
        (/\ out[i].op = "spawn"
         /\ container_exists(out[i].before, container_name(out[i].instance_id)))
            => /\ "create_image" \notin C25_Requests(out[i])
               /\ "create_container" \notin C25_Requests(out[i])

----------------------------------------------------------------------------
C26_Volumes(instance_id) == {config_volume(instance_id), sources_volume(instance_id)}

(* the positions of spawn_blazedb_container at which it ensures a volume *)
C26_AtVolume == call.op = "spawn" /\ call.pc \in {"config_volume", "sources_volume"}

(* and those after the volumes: the pull and the container requests *)
C26_PastVolumes ==
    call.op = "spawn" /\ call.pc \in {"pull", "exists", "create", "start_existing", "start"}

(* C26: while spawn_blazedb_container ensures its volumes it has made no
   container request, and when it comes to the container both volumes of the
   instance exist; a step creates a volume only if that volume was absent;
   and a call that ends while ensuring a volume ends with an error and has
   neither created nor started a container. *)
C26_VolumesBeforeContainer ==
    [][/\ C26_AtVolume =>
            \A i \in DOMAIN call.log : call.log[i] = "create_volume"
       /\ C26_PastVolumes => C26_Volumes(call.instance_id) \subseteq docker.volumes
       /\ C26_PastVolumes' => C26_Volumes(call'.instance_id) \subseteq docker'.volumes
       /\ docker'.volumes # docker.volumes =>
            /\ C26_AtVolume
            /\ \E v \in C26_Volumes(call.instance_id) :
                /\ v \notin docker.volumes
                /\ docker'.volumes = docker.volumes \cup {v}
            /\ docker'.containers = docker.containers
       /\ (C26_AtVolume /\ call'.pc = "idle") =>
            /\ docker' = docker
            /\ ~call.disturbed =>
                /\ out'[Len(out')].result = "Err"
                /\ out'[Len(out')].after.containers = out'[Len(out')].before.containers]_vars

(* a first call created both volumes and the container; a second call for
   the same instance created no volume and started the container again *)
C26_Witness ==
    /\ Len(out) = 2
    /\ out[1].op = "spawn" /\ out[2].op = "spawn"
    /\ out[1].instance_id = out[2].instance_id
    /\ out[1].result = "Ok" /\ out[2].result = "Ok"
    /\ SubSeq(out[1].log, 1, 2) = <<"create_volume", "create_volume">>
    /\ \A i \in DOMAIN out[2].log : out[2].log[i] # "create_volume"
    /\ C26_Volumes(out[1].instance_id) \cap out[1].before.volumes = {}

----------------------------------------------------------------------------
(* the cache c without the entry of the key h, the order of the rest kept *)
C27_Without(c, h) == SelectSeq(c, LAMBDA e : e.key # h)

C27_Holds(c, h) == \E i \in DOMAIN c : c[i].key = h

(* the connection c comes back from cache.get with an entry *)
C27_HitBy(c) == req[c].pc = "verify" /\ req'[c].pc = "forward"

(* the connection c comes back from cache.put *)
C27_PutBy(c) == req[c].pc = "put" /\ req'[c].pc = "forward"

(* C27: the cache never holds more entries than its capacity, nor two for
   one key.  It is ordered by last use: a hit moves its entry to the front,
   a put places its entry at the front, nothing else changes the cache.  A
   put of a new key into a full cache drops exactly the entry at the back,
   the one least recently hit or put, and no other put drops any. *)
C27_CapacityAndLruEviction ==
    [][/\ Len(cache) <= CacheCap
       /\ \A i, j \in DOMAIN cache : cache[i].key = cache[j].key => i = j
       /\ \A c \in Connections :
            LET h == req[c].api_key_hash IN
            /\ C27_HitBy(c) =>
                /\ C27_Holds(cache, h)
                /\ cache' = <<cache[CHOOSE i \in DOMAIN cache : cache[i].key = h]>>
                            \o C27_Without(cache, h)
            /\ C27_PutBy(c) =>
                /\ Len(cache') <= CacheCap
                /\ cache'[1] = [key |-> h, value |-> req[c].user[1]]
                /\ Tail(cache') =
                     IF C27_Holds(cache, h) THEN C27_Without(cache, h)
                     ELSE IF Len(cache) = CacheCap
                     THEN SubSeq(cache, 1, Len(cache) - 1)
                     ELSE cache
       /\ (\A c \in Connections : ~C27_HitBy(c) /\ ~C27_PutBy(c)) => cache' = cache]_vars

(* bob's key was found in the cache; then alice's revoked key was found in
   it, and then her new key was put into the full cache: bob's entry, by
   then the one least recently used, is the one that went *)
C27_Witness ==
    /\ Len(cache) = CacheCap
    /\ req[1].via = "hit" /\ req[1].api_key_hash = hash_api_key(KeyB1)
    /\ req[2].via = "miss" /\ req[2].pc = "forward"
    /\ req[2].api_key_hash = hash_api_key(KeyA2)
    /\ cache[1].key = hash_api_key(KeyA2)
    /\ cache[2].key = hash_api_key(KeyA1)
    /\ ~C27_Holds(cache, hash_api_key(KeyB1))

----------------------------------------------------------------------------
(* the gateway reaches the instance through a port of the host *)
C28_HostRouting(instance_id) == container_url(instance_id).host = "localhost"

(* C28: for every container provisioned for a tenant, the container has a
   host port binding exactly when the gateway reaches instances through
   ports of the host, and in that case the port the gateway forwards to is
   the port bound. *)
C28_ProvisioningAndRoutingAgree ==
    \A i \in Tenants : \A k \in docker.containers :
        k.name = container_name(i) =>
            /\ (k.port_bindings # None) <=> C28_HostRouting(i)
            /\ C28_HostRouting(i) => k.port_bindings = Some(container_url(i).port)

----------------------------------------------------------------------------
(* the records of the backing file as it is now *)
C29_InFile == Deserialize(file.doc)

(* the last reload of the background task has returned, and what it read is
   the file as it is now *)
C29_Reloaded ==
    \E t \in Tasks :
        /\ th[t].op = "reload" /\ th[t].pc = "idle" /\ th[t].ret = "ok"
        /\ th[t].loaded = C29_InFile

(* the record of e in the file has a key with the hash h that is not revoked *)
C29_FileAccepts(e, h) ==
    /\ e \in DOMAIN C29_InFile
    /\ \E i \in DOMAIN C29_InFile[e].api_key :
         /\ C29_InFile[e].api_key[i].api_key_hash = h
         /\ ~C29_InFile[e].api_key[i].is_revoked

(* C29: once the background reload has read the backing file as the service
   last wrote it and has returned, a verification that misses the cache
   decides on the records of that file: it goes on with the identity of the
   file's record where that record has the key unrevoked, and is rejected
   with InvalidApiKey where the key is revoked there or not there at all. *)
C29_MissDecidesOnReloadedFile ==
    [][\A c \in Connections :
        (C29_Reloaded /\ req[c].pc = "load" /\ req'[c].pc # "load") =>
            IF C29_FileAccepts(req[c].email, req[c].api_key_hash)
            THEN /\ req'[c].pc = "put"
                 /\ req'[c].user = Some(CachedUser(C29_InFile[req[c].email]))
            ELSE /\ req'[c].pc = "done"
                 /\ req'[c].status = "InvalidApiKey"]_vars

(* alice's first key was accepted from the store; then the service wrote the
   file with that key revoked, the reload ran, and the same key, missing the
   cache on the other connection, was rejected *)
C29_Witness ==
    /\ C29_Reloaded
    /\ req[1].via = "miss" /\ req[1].pc = "put"
    /\ req[1].api_key_hash = hash_api_key(KeyA1)
    /\ req[2].via = "miss" /\ req[2].status = "InvalidApiKey"
    /\ req[2].api_key_hash = hash_api_key(KeyA1)
    /\ ~C29_FileAccepts("alice", hash_api_key(KeyA1))

----------------------------------------------------------------------------
(* the backing file holds the record r under the e-mail e *)
C30_InFile(e, r) == file.kind = "json" /\ <<e, r>> \in file.doc

(* the record r is in the map under e and the file does not hold it *)
C30_OnlyInMemory(e, r) == MapGet(data, e) = Some(r) /\ ~C30_InFile(e, r)

(* the records the registrations and verifications modelled may insert *)
C30_Records ==
    UNION {{NewUser(e, e),
            [NewUser(e, e) EXCEPT !.is_verified = TRUE,
                                  !.instance_id = get_unique_instance_id(e),
                                  !.api_key = <<APIKey(generate_api_key(e, "s1"), FALSE)>>]} :
           e \in RawEmails}

(* C30: a step that inserts a record into the map in memory leaves the
   backing file as it is, and every record inserted that way and still in
   the map is in the file at some later time, the process running on. *)
C30_MemInsertsReachFile ==
    /\ [][data' # data => file' = file]_vars
    /\ \A r \in C30_Records :
          C30_OnlyInMemory(r.email, r)
              ~> (C30_InFile(r.email, r) \/ MapGet(data, r.email) # Some(r))

----------------------------------------------------------------------------
(* C31: the reload task attempts a reload again and again for as long as
   the gateway runs, whatever requests are served meanwhile and however the
   attempts before ended; in particular an attempt that failed is followed
   by another one. *)
C31_ReloadsForever ==
    \A t \in Tasks :
        /\ []<><<update_cache_task(t)>>_vars
        /\ (th[t].ret = "err") ~> (th[t].pc = "due")

(* the round before failed on a file half written, and the task has read
   the rewritten file since and put it in place *)
C31_Witness ==
    /\ out = <<"err">>
    /\ \E t \in Tasks :
        /\ th[t].op = "reload" /\ th[t].pc = "idle" /\ th[t].ret = "ok"
        /\ th[t].loaded # EmptyMap /\ data = th[t].loaded
    /\ \E c \in Connections : req[c].status = "Ok"

----------------------------------------------------------------------------
(* the calls c and d, from the reading of the clock to the rate limit, lie
   within one cooldown period *)
C32_WithinCooldown(c, d) ==
    LET first == IF req[c].ts <= req[d].ts THEN req[c].ts ELSE req[d].ts
        final == IF req[c].at >= req[d].at THEN req[c].at ELSE req[d].at
    IN  final - first < OTP_COOLDOWN_SECONDS

(* the call c fails to send its mail in this step *)
C32_MailFails(c) == req[c].pc = "mail" /\ req'[c].pc = "done" /\ ~req'[c].sent

(* C32: of the calls of send_verification_code for one e-mail that lie
   within one cooldown period, at most one passes the rate limit and goes
   on to draw a code; and a call whose mail fails takes the code record of
   its e-mail out of the cache and leaves the rate limit as it recorded it. *)
C32_OneCodePerCooldown ==
    [][/\ \A c, d \in Handlers :
            (/\ c # d
             /\ req'[c].passed /\ req'[d].passed
             /\ req'[c].email = req'[d].email)
                => ~C32_WithinCooldown(c, d)'
       /\ \A c \in Handlers :
            C32_MailFails(c) =>
                /\ req[c].email \notin DOMAIN otp_cache'
                /\ rate_limit' = rate_limit]_vars

(* two calls for one e-mail came to the rate limit at the same moment: one
   passed and its mail failed, the limit it recorded is still there and the
   code record is gone; the other was turned away *)
C32_Witness ==
    \E c, d \in Handlers :
        /\ c # d
        /\ req[c].email = req[d].email
        /\ req[c].ts = req[d].ts /\ req[c].at = req[d].at
        /\ req[c].pc = "done" /\ req[c].passed /\ ~req[c].sent
        /\ req[d].pc = "done" /\ ~req[d].passed
        /\ req[c].email \in DOMAIN rate_limit
        /\ req[c].email \notin DOMAIN otp_cache

----------------------------------------------------------------------------
(* s and t hold the same characters, each as often *)
C33_Permuted(s, t) ==
    /\ Len(s) = Len(t)
    /\ \A ch \in HexDigits :
         Cardinality({i \in 1..Len(s) : s[i] = ch})
             = Cardinality({i \in 1..Len(t) : t[i] = ch})

(* C33: calculate_container_port is not injective: two distinct instance
   ids whose first 8 characters are the same, or are a permutation of each
   other, get the same port. *)
C33_DistinctIdsSharePort ==
    (/\ Len(out) = 2
     /\ arg[1] # arg[2]
     /\ C33_Permuted(take(arg[1], PORT_CHARS), take(arg[2], PORT_CHARS)))
        => out[1] = out[2]

(* two ids of nine characters that differ in the ninth only, and the one
   port returned for both *)
C33_Witness ==
    /\ Len(out) = 2
    /\ out[1] = out[2]
    /\ Len(arg[1]) = PORT_CHARS + 1 /\ Len(arg[2]) = PORT_CHARS + 1
    /\ arg[1] # arg[2]
    /\ take(arg[1], PORT_CHARS) = take(arg[2], PORT_CHARS)

----------------------------------------------------------------------------
(* the verification of e's code is answered in this step, with no container
   for e's instance before or after: none was provisioned *)
C34_AnsweredUnprovisioned(e) ==
    /\ resp' # resp
    /\ resp'.op = "verify_code" /\ resp'.email = e
    /\ e \in DOMAIN otp_cache /\ e \in DOMAIN data
    /\ ~(now > otp_cache[e].expires_at)
    /\ \E otp \in Otps : crypto_verify_otp(otp, otp_cache[e].otp_hash)
                         /\ resp'.status # "Invalid verification code"
    /\ get_unique_instance_id(data[e].email) \notin containers'

(* C34: when the container cannot be provisioned during the activation of a
   tenant, nothing is rolled back: the record is left verified, with its
   instance id and the new key, the response reports success and carries
   the plain key, and the code is consumed. *)
C34_NoRollbackOnSpawnFailure ==
    [][\A e \in Submitted :
         C34_AnsweredUnprovisioned(e) =>
            /\ resp'.ok /\ resp'.status = "Email verified successfully"
            /\ resp'.api_key # None
            /\ resp'.instance_id = Some(get_unique_instance_id(data[e].email))
            /\ e \in DOMAIN data'
            /\ data'[e].is_verified
            /\ data'[e].instance_id = get_unique_instance_id(data[e].email)
            /\ Len(data'[e].api_key) = Len(data[e].api_key) + 1
            /\ data'[e].api_key[Len(data'[e].api_key)]
                   = APIKey(resp'.api_key[1], FALSE)
            /\ e \notin DOMAIN otp_cache']_vars

(* a tenant activated with no container: verified, holding a key and the
   instance id it was answered with, its code gone *)
C34_Witness ==
    /\ resp.op = "verify_code" /\ resp.ok
    /\ resp.api_key # None
    /\ resp.email \in DOMAIN data
    /\ data[resp.email].is_verified
    /\ resp.instance_id = Some(data[resp.email].instance_id)
    /\ data[resp.email].instance_id \notin containers
    /\ data[resp.email].api_key # <<>>
    /\ resp.email \notin DOMAIN otp_cache

----------------------------------------------------------------------------
(* the thread t calls reload in this step and the call returns in it *)
C35_ReloadReturns(t) == reload(t) /\ th'[t].pc = "idle"

(* C35: a reload that finds the backing file half rewritten by a writer
   returns an error, a reload that finds no backing file returns Ok, and
   both leave the map in memory exactly as it was; a reload returns an
   error in no other case. *)
C35_FailedReloadKeepsMap ==
    [][\A t \in Threads :
         /\ C35_ReloadReturns(t) =>
               /\ data' = data
               /\ file.kind = "partial" => th'[t].ret = "err"
               /\ file.kind = "absent" => th'[t].ret = "ok"
               /\ file.kind \in {"partial", "absent"}
         /\ (th'[t].op = "reload" /\ th'[t].ret = "err" /\ th'[t] # th[t])
               => C35_ReloadReturns(t) /\ file.kind = "partial"]_vars

(* a reload returned an error beside a writer that has truncated the file
   and not yet written it, the map in memory still holding what it held *)
C35_Witness ==
    /\ file.kind = "partial"
    /\ data # EmptyMap
    /\ \E t, u \in Threads :
         /\ t # u
         /\ th[t].op = "reload" /\ th[t].pc = "idle" /\ th[t].ret = "err"
         /\ th[u].pc = "save_write"

----------------------------------------------------------------------------
(* C36: a pair whose durable insert has returned Ok is not lost from memory
   by a reload that runs beside the insert: when an insert(k, v) and a
   reload are the two calls made on the store and both have returned, the
   insert with Ok, get(k) is Some(v). *)
C36_InsertSurvivesReload ==
    \A t, u \in Threads :
        (/\ nops = 2
         /\ th[t].op = "insert" /\ th[t].pc = "idle" /\ th[t].ret = "ok"
         /\ th[u].op = "reload" /\ th[u].pc = "idle")
            => MapGet(data, th[t].key) = Some(th[t].val)

----------------------------------------------------------------------------
(* no call has returned an error *)
C37_AllOk == \A t \in Threads : th[t].ret # "err"

(* no call is in flight *)
C37_Quiet == \A t \in Threads : th[t].pc = "idle"

(* C37: as long as every durable mutation (insert, delete, clear,
   batch_insert) has returned Ok, whenever none is in flight the map a
   store would load from the backing file is the map in memory, in every
   interleaving of the mutations. *)
C37_FileFollowsMemory ==
    ([]C37_AllOk) =>
        [](C37_Quiet => (StoreNew(file).ok /\ StoreNew(file).data = data))

(* two threads have each made a durable mutation that returned Ok, three
   calls in all, and the file holds the non-empty map in memory *)
C37_Witness ==
    /\ C37_Quiet
    /\ nops = MaxOps
    /\ \A t \in Threads : th[t].ret = "ok" /\ th[t].op \in {"insert", "delete", "clear", "batch_insert"}
    /\ \E t, u \in Threads : th[t].op = "insert" /\ th[u].op = "delete" /\ th[u].old # None
    /\ data # EmptyMap
    /\ file = FileJson(Serialize(data))

----------------------------------------------------------------------------
(* the entry en is what a verification makes of a record the service has
   saved at some time: the record holds the entry's key, not revoked, and
   the entry carries the record's identity and instance id *)
C38_FromVerifiedRecord(en) ==
    \E v \in DOMAIN Saved : \E e \in DOMAIN Saved[v] :
        /\ key_valid(Saved[v][e], en.key)
        /\ en.value = CachedUser(Saved[v][e])
        /\ en.value.instance_id = Saved[v][e].instance_id

(* C38: only successful verifications populate the auth cache.  A load that
   succeeds has read, in that step, a record of the store that holds the
   presented hash as a key not revoked; an entry that appears in the cache
   or changes is put by a connection with such a load behind it, under the
   hash it presented and with the identity it loaded; and a verification
   that fails leaves the cache as it was. *)
C38_OnlyVerifiedEntries ==
    [][/\ \A c \in Connections :
            (req[c].pc = "load" /\ req'[c].pc = "put") =>
                /\ req[c].email \in DOMAIN data
                /\ key_valid(data[req[c].email], req[c].api_key_hash)
                /\ req'[c].user = Some(CachedUser(data[req[c].email]))
                /\ req'[c].user[1].instance_id = data[req[c].email].instance_id
                /\ req'[c].api_key_hash = req[c].api_key_hash
       /\ \A c \in Connections :
            req'[c].pc = "put" =>
                C38_FromVerifiedRecord([key |-> req'[c].api_key_hash,
                                        value |-> req'[c].user[1]])
       /\ \A i \in DOMAIN cache' :
            /\ C38_FromVerifiedRecord(cache'[i])
            /\ lru_peek(cache, cache'[i].key) # Some(cache'[i].value) =>
                 \E c \in Connections :
                    /\ req[c].pc = "put" /\ req'[c].pc = "forward"
                    /\ req[c].api_key_hash = cache'[i].key
                    /\ req[c].user = Some(cache'[i].value)
       /\ \A c \in Connections :
            (req[c].pc \in {"verify", "load"} /\ req'[c].status = "InvalidApiKey")
                => cache' = cache]_vars

(* the cache holds the entry of a key that the store has since seen
   revoked, and a verification of another connection has failed beside it *)
C38_Witness ==
    /\ \E i \in DOMAIN cache :
         /\ cache[i].key = hash_api_key(KeyA1)
         /\ "alice" \in DOMAIN data
         /\ ~key_valid(data["alice"], cache[i].key)
    /\ \E c \in Connections : req[c].via = "miss" /\ req[c].status = "InvalidApiKey"

----------------------------------------------------------------------------
(* C39: every plain key returned by a successful verification stays usable:
   once the verifications of one tenant have all completed, the hash of
   each key returned is on the tenant's record as a key not revoked; and
   the one code issued leads to at most one successful verification. *)
C39_ReturnedKeysStayUsable ==
    (\A c \in Handlers : req[c].pc \in {"idle", "done"}) =>
        /\ \A c \in Handlers :
             req[c].ok =>
                /\ req[c].email \in DOMAIN data
                /\ key_valid(data[req[c].email], hash_api_key(req[c].plain_key[1]))
        /\ Cardinality({c \in Handlers : req[c].ok}) <= 1

----------------------------------------------------------------------------
(* C40: registration never overwrites a tenant record: a registration that
   is answered while the store holds a record under its e-mail is answered
   CONFLICT, and no step of a registration changes a record the store
   holds (its verification flag, its keys, its instance id). *)
C40_RegistrationKeepsRecords ==
    [][\A c \in Handlers :
         (req'[c] # req[c] /\ req'[c].pc = "done" /\ req'[c].email \in DOMAIN data) =>
            /\ req'[c].status = "CONFLICT"
            /\ data' = data]_vars

====
